---- MODULE Spec2Model ----
(***************************************************************************)
(* State-machine model of the GameDevTask entity stores:                   *)
(*   - MemStorage            (GameTaskMaster/server/storage.ts)            *)
(*   - the IndexedDB store   (GameTaskMaster/client/src/lib/indexedDb.ts)  *)
(*   - SubtaskList.onDragEnd (client/src/components/tasks/subtask-list.tsx)*)
(* One behaviour runs one store variant; `variant` is fixed by Init.       *)
(* Dates are instants in milliseconds; null in a numeric field (an id, a    *)
(* date) is Null.  A record lacks the properties its object lacks.         *)
(***************************************************************************)
EXTENDS Integers, Sequences, FiniteSets, TLC

Null == 0 - 1

\* ------------------------------------------------------------------ bounds
MaxProjectId == 2
MaxTaskId == 2
MaxLog == 4
MaxClock == 1500
MaxTimeLogs == 2
MaxSubtasks == 3
MaxComments == 1
MaxStoreLog == 3
MaxPomodoros == 8
MaxFailLog == 2

\* --------------------------------------------------------- program values
TaskStatuses == {"not-started", "in-progress", "completed"}
ProjectNames == {"Demo"}

VARIABLES
    variant,            \* "mem" (MemStorage) or "idb" (IndexedDB store)
    clock,              \* the wall clock read by new Date(), in ms
    projects,           \* projectsData / object store 'projects'
    tasks,              \* tasksData / object store 'tasks'
    projectCurrentId,   \* projectCurrentId / key generator of 'projects'
    taskCurrentId,      \* taskCurrentId / key generator of 'tasks'
    settings,           \* settingsData / object store 'settings' (<<>> or <<row>>)
    subtasks,           \* object store 'subtasks'
    comments,           \* object store 'comments'
    timeLogs,           \* object store 'timeLogs'
    timeLogKeyGen,      \* key generator of 'timeLogs'
    commentKeyGen,      \* key generator of 'comments'
    activityLog,        \* object store 'activityLog'
    syncLog,            \* object store 'syncLog'
    backup,             \* the last value returned by getBackupData (<<>> or <<b>>)
    listState,          \* SubtaskList component state `subtasks`
    writers,            \* the store call each page has in flight, and where it stands
    pomodoro,           \* PomodoroTimer component state and its useTimer hook
    lastCall            \* the last call: [op, arg, ret]

vars == <<variant, clock, projects, tasks, projectCurrentId, taskCurrentId,
          settings, subtasks, comments, timeLogs, timeLogKeyGen, commentKeyGen,
          activityLog, syncLog, backup, listState, writers, pomodoro, lastCall>>

entityVars == <<projects, tasks, projectCurrentId, taskCurrentId, settings>>
childVars == <<subtasks, comments, timeLogs, timeLogKeyGen, commentKeyGen>>
logVars == <<activityLog, syncLog>>
uiVars == <<listState>>
pageVars == <<writers, pomodoro>>

\* ---------------------------------------------------------------- helpers
Range(s) == {s[i] : i \in 1..Len(s)}

Ids(rows) == {rows[i].id : i \in 1..Len(rows)}

Max(S) == CHOOSE m \in S : \A x \in S : x <= m

\* Array.prototype.findIndex(r => r.id === id); 0 stands for -1
FindIndex(rows, id) ==
    IF \E i \in 1..Len(rows) : rows[i].id = id
    THEN CHOOSE i \in 1..Len(rows) :
             rows[i].id = id /\ \A j \in 1..(i - 1) : rows[j].id # id
    ELSE 0

\* Array.prototype.splice(index, 1)
Splice(rows, index) ==
    [i \in 1..(Len(rows) - 1) |-> IF i < index THEN rows[i] ELSE rows[i + 1]]

\* { ...rec, ...partial }: object spread, a property of partial wins
Merge(rec, partial) ==
    [f \in (DOMAIN rec) \cup (DOMAIN partial) |->
        IF f \in DOMAIN partial THEN partial[f] ELSE rec[f]]

\* rec.f, with dflt for the undefined of a missing property
Get(rec, f, dflt) == IF f \in DOMAIN rec THEN rec[f] ELSE dflt

Has(rec, f) == f \in DOMAIN rec

\* return values
RetUndefined == [kind |-> "undefined", val |-> <<>>]
RetNull == [kind |-> "null", val |-> <<>>]
RetTrue == [kind |-> "true", val |-> <<>>]
RetFalse == [kind |-> "false", val |-> <<>>]
RetRecord(r) == [kind |-> "record", val |-> <<r>>]
RetThrow(e) == [kind |-> e, val |-> <<>>]

Call(op, arg, ret) == [op |-> op, arg |-> arg, ret |-> ret]

\* Date.prototype.toISOString and new Date(isoString), at millisecond precision
ToISOString(t) == [sec |-> t \div 1000, ms |-> t % 1000]
NewDate(s) == s.sec * 1000 + s.ms

\* new Date(): a call reads the clock once
NewDateNow == {clock}

\* ----------------------------------------------------------------- inputs
\* projectId is a weak reference: null, or the id the first project gets
ProjectRefs == {Null, 1}

\* InsertProject: createdAt and id are omitted by insertProjectSchema
ProjectInputs == {[name |-> n, phase |-> "pre-production"] : n \in ProjectNames}

ProjectPartials == {[phase |-> "production"]}

\* InsertTask: id, createdAt and completedAt are omitted by insertTaskSchema;
\* status has a default and may be left out
TaskInputs ==
    {[title |-> "A", projectId |-> p] : p \in ProjectRefs}
    \cup {[title |-> "A", projectId |-> p, status |-> "completed"] : p \in ProjectRefs}

\* the task checkbox and the task form send a status
TaskPartials == {[status |-> "completed"], [status |-> "in-progress"]}

\* ============================================================== MemStorage
MemCreateProject(project) ==
    /\ variant = "mem"
    /\ projectCurrentId <= MaxProjectId
    /\ LET newProject == Merge(project, [id |-> projectCurrentId])
       IN /\ projects' = Append(projects, newProject)
          /\ projectCurrentId' = projectCurrentId + 1
          /\ lastCall' = Call("createProject", <<project>>, RetRecord(newProject))
    /\ UNCHANGED <<variant, pageVars, clock, tasks, taskCurrentId, settings, childVars,
                   logVars, backup, uiVars>>

MemUpdateProject(id, project) ==
    /\ variant = "mem"
    /\ LET index == FindIndex(projects, id)
       IN IF index = 0
          THEN /\ lastCall' = Call("updateProject", <<id, project>>, RetUndefined)
               /\ UNCHANGED projects
          ELSE /\ projects' = [projects EXCEPT ![index] = Merge(projects[index], project)]
               /\ lastCall' = Call("updateProject", <<id, project>>,
                                   RetRecord(Merge(projects[index], project)))
    /\ UNCHANGED <<variant, pageVars, clock, tasks, projectCurrentId, taskCurrentId, settings,
                   childVars, logVars, backup, uiVars>>

MemDeleteProject(id) ==
    /\ variant = "mem"
    /\ LET index == FindIndex(projects, id)
       IN IF index = 0
          THEN /\ lastCall' = Call("deleteProject", <<id>>, RetFalse)
               /\ UNCHANGED <<projects, tasks>>
          ELSE /\ projects' = Splice(projects, index)
               /\ tasks' = SelectSeq(tasks, LAMBDA t : Get(t, "projectId", Null) # id)
               /\ lastCall' = Call("deleteProject", <<id>>, RetTrue)
    /\ UNCHANGED <<variant, pageVars, clock, projectCurrentId, taskCurrentId, settings,
                   childVars, logVars, backup, uiVars>>

MemCreateTask(task) ==
    /\ variant = "mem"
    /\ taskCurrentId <= MaxTaskId
    /\ LET newTask == Merge(task, [id |-> taskCurrentId])
       IN /\ tasks' = Append(tasks, newTask)
          /\ taskCurrentId' = taskCurrentId + 1
          /\ lastCall' = Call("createTask", <<task>>, RetRecord(newTask))
    /\ UNCHANGED <<variant, pageVars, clock, projects, projectCurrentId, settings, childVars,
                   logVars, backup, uiVars>>

\* the row is replaced by the partial instead of merged with it
MemUpdatedTasksBad(id, task) ==
    LET index == FindIndex(tasks, id)
    IN IF index = 0 THEN tasks
       ELSE [tasks EXCEPT ![index] = Merge([id |-> id], task)]

\* tasksData after updateTask(id, task); tasksData itself when id is absent
MemUpdatedTasks(id, task) ==
    LET index == FindIndex(tasks, id)
    IN IF index = 0 THEN tasks
       ELSE [tasks EXCEPT ![index] = Merge(tasks[index], task)]

MemUpdateTask(id, task) ==
    /\ variant = "mem"
    /\ LET index == FindIndex(tasks, id)
       IN /\ tasks' = MemUpdatedTasks(id, task)
          /\ lastCall' = Call("updateTask", <<id, task>>,
                              IF index = 0 THEN RetUndefined
                              ELSE RetRecord(Merge(tasks[index], task)))
    /\ UNCHANGED <<variant, pageVars, clock, projects, projectCurrentId, taskCurrentId, settings,
                   childVars, logVars, backup, uiVars>>

MemCompleteTask(id) ==
    /\ variant = "mem"
    /\ LET index == FindIndex(tasks, id)
       IN IF index = 0
          THEN /\ lastCall' = Call("completeTask", <<id>>, RetUndefined)
               /\ UNCHANGED <<tasks, clock>>
          ELSE \E now \in NewDateNow :
                 LET updatedTask == Merge(tasks[index],
                                          [status |-> "completed", completedAt |-> now])
                 IN /\ clock' = now
                    /\ tasks' = MemUpdatedTasks(id, updatedTask)
                    /\ lastCall' = Call("completeTask", <<id>>, RetRecord(updatedTask))
    /\ UNCHANGED <<variant, pageVars, projects, projectCurrentId, taskCurrentId, settings,
                   childVars, logVars, backup, uiVars>>

\* no check of the index: splice(-1, 1) removes the last row
MemDeleteTaskBad(id) ==
    /\ variant = "mem"
    /\ LET index == FindIndex(tasks, id)
       IN /\ tasks' = IF index = 0 THEN SubSeq(tasks, 1, Len(tasks) - 1)
                       ELSE Splice(tasks, index)
          /\ lastCall' = Call("deleteTask", <<id>>, RetTrue)
    /\ UNCHANGED <<variant, pageVars, clock, projects, projectCurrentId, taskCurrentId, settings,
                   childVars, logVars, backup, uiVars>>

MemDeleteTask(id) ==
    /\ variant = "mem"
    /\ LET index == FindIndex(tasks, id)
       IN IF index = 0
          THEN /\ lastCall' = Call("deleteTask", <<id>>, RetFalse)
               /\ UNCHANGED tasks
          ELSE /\ tasks' = Splice(tasks, index)
               /\ lastCall' = Call("deleteTask", <<id>>, RetTrue)
    /\ UNCHANGED <<variant, pageVars, clock, projects, projectCurrentId, taskCurrentId, settings,
                   childVars, logVars, backup, uiVars>>

\* --------------------------------------------- MemStorage backup / restore
\* project.createdAt.toISOString() throws a TypeError when createdAt is missing
MemCanExport ==
    /\ \A i \in 1..Len(projects) : Has(projects[i], "createdAt")
    /\ \A i \in 1..Len(tasks) : Has(tasks[i], "createdAt")

\* x ? x.toISOString() : null
IsoOrNull(rec, f) ==
    IF Has(rec, f) /\ rec[f] # Null THEN <<ToISOString(rec[f])>> ELSE <<>>

\* x ? new Date(x) : null
DateOrNull(rec, f) ==
    IF Has(rec, f) /\ rec[f] # <<>> THEN NewDate(rec[f][1]) ELSE Null

MemBackupProject(project) ==
    Merge(project, [createdAt |-> <<ToISOString(project.createdAt)>>,
                    deadline |-> IsoOrNull(project, "deadline")])

MemBackupTask(task) ==
    Merge(task, [createdAt |-> <<ToISOString(task.createdAt)>>,
                 deadline |-> IsoOrNull(task, "deadline"),
                 completedAt |-> IsoOrNull(task, "completedAt")])

MemBackupData ==
    [projects |-> [i \in 1..Len(projects) |-> MemBackupProject(projects[i])],
     tasks |-> [i \in 1..Len(tasks) |-> MemBackupTask(tasks[i])],
     settings |-> IF settings # <<>>
                  THEN <<[theme |-> settings[1].theme,
                          language |-> settings[1].language,
                          primaryColor |-> settings[1].primaryColor]>>
                  ELSE <<>>]

MemGetBackupData ==
    /\ variant = "mem"
    /\ IF MemCanExport
       THEN /\ backup' = <<MemBackupData>>
            /\ lastCall' = Call("getBackupData", <<>>, RetRecord(MemBackupData))
       ELSE /\ lastCall' = Call("getBackupData", <<>>, RetThrow("TypeError"))
            /\ UNCHANGED backup
    /\ UNCHANGED <<variant, pageVars, clock, entityVars, childVars, logVars, uiVars>>

MemRestoredProject(project) ==
    Merge(project, [createdAt |-> NewDate(project.createdAt[1]),
                    deadline |-> DateOrNull(project, "deadline")])

MemRestoredTask(task) ==
    Merge(task, [createdAt |-> NewDate(task.createdAt[1]),
                 deadline |-> DateOrNull(task, "deadline"),
                 completedAt |-> DateOrNull(task, "completedAt")])

MemRestoredProjects(b) ==
    [i \in 1..Len(b.projects) |-> MemRestoredProject(b.projects[i])]

MemRestoredTasks(b) ==
    [i \in 1..Len(b.tasks) |-> MemRestoredTask(b.tasks[i])]

\* the id counter is reset without looking at the restored rows
MemNextIdBad(rows) == 1

\* Math.max(...rows.map(r => r.id), 0) + 1
MemNextId(rows) == Max(Ids(rows) \cup {0}) + 1

\* backup.tasks.forEach throws a TypeError when the backup has no tasks array;
\* the catch returns false after projectsData and tasksData were replaced
MemRestoreFromBackup(b) ==
    /\ variant = "mem"
    /\ Has(b, "projects")
    /\ IF Has(b, "tasks")
       THEN /\ projects' = MemRestoredProjects(b)
            /\ tasks' = MemRestoredTasks(b)
            /\ settings' = IF Get(b, "settings", <<>>) # <<>>
                           THEN <<Merge([id |-> 1], b.settings[1])>>
                           ELSE settings
            /\ projectCurrentId' = MemNextId(MemRestoredProjects(b))
            /\ taskCurrentId' = MemNextId(MemRestoredTasks(b))
            /\ lastCall' = Call("restoreFromBackup", <<b>>, RetTrue)
       ELSE /\ projects' = MemRestoredProjects(b)
            /\ tasks' = <<>>
            /\ lastCall' = Call("restoreFromBackup", <<b>>, RetFalse)
            /\ UNCHANGED <<settings, projectCurrentId, taskCurrentId>>
    /\ UNCHANGED <<variant, pageVars, clock, childVars, logVars, backup, uiVars>>

\* A backup file written on another installation (backupSchema, dates as ISO strings)
ExternalBackup ==
    [projects |-> <<[id |-> 1, name |-> "Demo", phase |-> "production",
                     createdAt |-> <<ToISOString(400)>>, deadline |-> <<>>]>>,
     tasks |-> <<[id |-> 1, projectId |-> 1, title |-> "A", status |-> "completed",
                  createdAt |-> <<ToISOString(400)>>,
                  deadline |-> <<ToISOString(2500)>>,
                  completedAt |-> <<ToISOString(1100)>>]>>,
     settings |-> <<[theme |-> "dark", language |-> "ar", primaryColor |-> "#6200EA"]>>]

\* A file that passes no validation: the tasks array is missing
MalformedBackup == [projects |-> <<>>]

MemRestoreInputs == {backup[i] : i \in 1..Len(backup)} \cup {ExternalBackup, MalformedBackup}

\* ----------------------------------------------------- MemStorage statistics
MemGetStatistics ==
    [totalProjects |-> Len(projects),
     completedTasks |->
         Len(SelectSeq(tasks, LAMBDA t : Get(t, "status", "undefined") = "completed")),
     inProgressTasks |->
         Len(SelectSeq(tasks, LAMBDA t : Get(t, "status", "undefined") = "in-progress"))]

\* =========================================================== IndexedDB store
\* rows of an object store are kept in key order, as getAll returns them
IdbDelete(rows, id) == SelectSeq(rows, LAMBDA r : r.id # id)

IdbPut(rows, rec) ==
    LET below == SelectSeq(rows, LAMBDA r : r.id < rec.id)
        above == SelectSeq(rows, LAMBDA r : r.id > rec.id)
    IN below \o <<rec>> \o above

\* db.get(store, id): <<>> for undefined
IdbGet(rows, id) == SelectSeq(rows, LAMBDA r : r.id = id)

\* the key generator after a row with an explicit key was added
IdbKeyGenAfter(gen, id) == IF id >= gen THEN id + 1 ELSE gen

\* x || null
OrNull(rec, f) == IF Has(rec, f) /\ rec[f] # 0 THEN rec[f] ELSE Null

\* the row is written under the newest key again and replaces that entry
ActivityLoggedBad(al, log, now) ==
    SubSeq(al, 1, Len(al) - 1)
    \o <<[id |-> Max({Len(al), 1}),
          taskId |-> OrNull(log, "taskId"),
          projectId |-> OrNull(log, "projectId"),
          action |-> log.action,
          details |-> log.details,
          timestamp |-> now,
          userId |-> Get(log, "userId", "current-user")]>>

\* addActivityLog(log): the activityLog store after the append
ActivityLogged(al, log, now) ==
    Append(al, [id |-> Len(al) + 1,
                taskId |-> OrNull(log, "taskId"),
                projectId |-> OrNull(log, "projectId"),
                action |-> log.action,
                details |-> log.details,
                timestamp |-> now,
                userId |-> Get(log, "userId", "current-user")])

\* addSyncLogEntry(entityType, entityId, action, data): the syncLog store after
\* the append; data is <<>> for null
SyncLogged(sl, entityType, entityId, action, data, now) ==
    Append(sl, [id |-> Len(sl) + 1,
                entityType |-> entityType,
                entityId |-> entityId,
                action |-> action,
                timestamp |-> now,
                synced |-> FALSE,
                data |-> data])

LogRoom == Len(activityLog) < MaxLog /\ Len(syncLog) < MaxLog

IdbCreateProject(project) ==
    /\ variant = "idb"
    /\ projectCurrentId <= MaxProjectId
    /\ LogRoom
    /\ \E now \in NewDateNow :
         LET id == projectCurrentId
             newProject == Merge(project, [id |-> id])
         IN /\ clock' = now
            /\ projects' = IdbPut(projects, newProject)
            /\ projectCurrentId' = id + 1
            /\ activityLog' = ActivityLogged(activityLog,
                   [projectId |-> id, action |-> "create",
                    details |-> <<"Created project: ", project.name>>], now)
            /\ syncLog' = SyncLogged(syncLog, "project", id, "create", <<newProject>>, now)
            /\ lastCall' = Call("createProject", <<project>>, RetRecord(newProject))
    /\ UNCHANGED <<variant, pageVars, tasks, taskCurrentId, settings, childVars, backup, uiVars>>

IdbUpdateProject(id, project) ==
    /\ variant = "idb"
    /\ IF IdbGet(projects, id) = <<>>
       THEN /\ lastCall' = Call("updateProject", <<id, project>>, RetUndefined)
            /\ UNCHANGED <<clock, projects, logVars>>
       ELSE /\ LogRoom
            /\ \E now \in NewDateNow :
                 LET existingProject == IdbGet(projects, id)[1]
                     updatedProject == Merge(existingProject, project)
                 IN /\ clock' = now
                    /\ projects' = IdbPut(projects, updatedProject)
                    /\ activityLog' = ActivityLogged(activityLog,
                           [projectId |-> id, action |-> "update",
                            details |-> <<"Updated project: ", existingProject.name>>], now)
                    /\ syncLog' = SyncLogged(syncLog, "project", id, "update",
                                             <<updatedProject>>, now)
                    /\ lastCall' = Call("updateProject", <<id, project>>, RetRecord(updatedProject))
    /\ UNCHANGED <<variant, pageVars, tasks, projectCurrentId, taskCurrentId, settings, childVars,
                   backup, uiVars>>

\* db.getAllFromIndex('tasks', 'by-project', id)
TasksByProject(id) == SelectSeq(tasks, LAMBDA t : Get(t, "projectId", Null) = id)

\* The transaction tx has no request pending while addSyncLogEntry is awaited
\* inside the loop, so it commits there: the first task is deleted, and the
\* next tx.objectStore('tasks') throws because tx has finished.
IdbDeleteProject(id) ==
    /\ variant = "idb"
    /\ IF IdbGet(projects, id) = <<>>
       THEN /\ lastCall' = Call("deleteProject", <<id>>, RetFalse)
            /\ UNCHANGED <<clock, projects, tasks, logVars>>
       ELSE /\ LogRoom
            /\ \E now \in NewDateNow :
                 LET project == IdbGet(projects, id)[1]
                     tasksToDelete == TasksByProject(id)
                     n == Len(tasksToDelete)
                     activity == [action |-> "delete",
                                  details |-> <<"Deleted project: ", project.name>>]
                 IN /\ clock' = now
                    /\ projects' = IdbDelete(projects, id)
                    /\ IF n = 0
                       THEN /\ UNCHANGED tasks
                            /\ activityLog' = ActivityLogged(activityLog, activity, now)
                            /\ syncLog' = SyncLogged(syncLog, "project", id, "delete",
                                                     <<>>, now)
                            /\ lastCall' = Call("deleteProject", <<id>>, RetTrue)
                       ELSE /\ tasks' = IdbDelete(tasks, tasksToDelete[1].id)
                            /\ IF n = 1
                               THEN /\ activityLog' =
                                         ActivityLogged(activityLog, activity, now)
                                    /\ syncLog' = SyncLogged(
                                         SyncLogged(syncLog, "task", tasksToDelete[1].id,
                                                    "delete", <<>>, now),
                                         "project", id, "delete", <<>>, now)
                                    /\ lastCall' = Call("deleteProject", <<id>>, RetTrue)
                               ELSE /\ UNCHANGED activityLog
                                    /\ syncLog' = SyncLogged(syncLog, "task",
                                         tasksToDelete[1].id, "delete", <<>>, now)
                                    /\ lastCall' = Call("deleteProject", <<id>>,
                                                        RetThrow("InvalidStateError"))
    /\ UNCHANGED <<variant, pageVars, projectCurrentId, taskCurrentId, settings, childVars,
                   backup, uiVars>>

\* x || dflt on an enum property
OrDefault(rec, f, dflt) == IF Has(rec, f) /\ rec[f] # "" THEN rec[f] ELSE dflt

IdbCreateTask(task) ==
    /\ variant = "idb"
    /\ taskCurrentId <= MaxTaskId
    /\ LogRoom
    /\ \E now \in NewDateNow :
         LET id == taskCurrentId
             typedTask == Merge(task, [status |-> OrDefault(task, "status", "not-started"),
                                       priority |-> OrDefault(task, "priority", "medium"),
                                       category |-> OrDefault(task, "category", "other")])
             taskWithMetadata == Merge(typedTask, [createdAt |-> now, completedAt |-> Null])
             newTask == Merge(taskWithMetadata, [id |-> id])
         IN /\ clock' = now
            /\ tasks' = IdbPut(tasks, newTask)
            /\ taskCurrentId' = id + 1
            /\ activityLog' = ActivityLogged(activityLog,
                   [taskId |-> id, projectId |-> Get(task, "projectId", Null),
                    action |-> "create",
                    details |-> <<"Created task: ", task.title>>], now)
            /\ syncLog' = SyncLogged(syncLog, "task", id, "create", <<newTask>>, now)
            /\ lastCall' = Call("createTask", <<task>>, RetRecord(newTask))
    /\ UNCHANGED <<variant, pageVars, projects, projectCurrentId, settings, childVars, backup, uiVars>>

IdbUpdateTask(id, task) ==
    /\ variant = "idb"
    /\ IF IdbGet(tasks, id) = <<>>
       THEN /\ lastCall' = Call("updateTask", <<id, task>>, RetUndefined)
            /\ UNCHANGED <<clock, tasks, logVars>>
       ELSE /\ LogRoom
            /\ \E now \in NewDateNow :
                 LET existingTask == IdbGet(tasks, id)[1]
                     updatedTask == Merge(existingTask, task)
                 IN /\ clock' = now
                    /\ tasks' = IdbPut(tasks, updatedTask)
                    /\ activityLog' = ActivityLogged(activityLog,
                           [taskId |-> id, projectId |-> Get(updatedTask, "projectId", Null),
                            action |-> "update",
                            details |-> <<"Updated task: ", existingTask.title>>], now)
                    /\ syncLog' = SyncLogged(syncLog, "task", id, "update",
                                             <<updatedTask>>, now)
                    /\ lastCall' = Call("updateTask", <<id, task>>, RetRecord(updatedTask))
    /\ UNCHANGED <<variant, pageVars, projects, projectCurrentId, taskCurrentId, settings, childVars,
                   backup, uiVars>>

\* status is left as it was
IdbCompletedTaskStale(task, now) == Merge(task, [completedAt |-> now])

\* completedAt is left as it was
IdbCompletedTaskBad(task, now) == Merge(task, [status |-> "completed"])

\* { ...task, status: 'completed', completedAt: new Date() }
IdbCompletedTask(task, now) == Merge(task, [status |-> "completed", completedAt |-> now])

IdbCompleteTask(id) ==
    /\ variant = "idb"
    /\ IF IdbGet(tasks, id) = <<>>
       THEN /\ lastCall' = Call("completeTask", <<id>>, RetUndefined)
            /\ UNCHANGED <<clock, tasks, logVars>>
       ELSE /\ LogRoom
            /\ \E now \in NewDateNow :
                 LET task == IdbGet(tasks, id)[1]
                     updatedTask == IdbCompletedTask(task, now)
                 IN /\ clock' = now
                    /\ tasks' = IdbPut(tasks, updatedTask)
                    /\ activityLog' = ActivityLogged(activityLog,
                           [taskId |-> id, projectId |-> Get(task, "projectId", Null),
                            action |-> "complete",
                            details |-> <<"Completed task: ", task.title>>], now)
                    /\ syncLog' = SyncLogged(syncLog, "task", id, "update",
                                             <<updatedTask>>, now)
                    /\ lastCall' = Call("completeTask", <<id>>, RetRecord(updatedTask))
    /\ UNCHANGED <<variant, pageVars, projects, projectCurrentId, taskCurrentId, settings, childVars,
                   backup, uiVars>>

IdbDeleteTask(id) ==
    /\ variant = "idb"
    /\ IF IdbGet(tasks, id) = <<>>
       THEN /\ lastCall' = Call("deleteTask", <<id>>, RetFalse)
            /\ UNCHANGED <<clock, tasks, logVars>>
       ELSE /\ LogRoom
            /\ \E now \in NewDateNow :
                 LET task == IdbGet(tasks, id)[1]
                 IN /\ clock' = now
                    /\ tasks' = IdbDelete(tasks, id)
                    /\ activityLog' = ActivityLogged(activityLog,
                           [projectId |-> Get(task, "projectId", Null), action |-> "delete",
                            details |-> <<"Deleted task: ", task.title>>], now)
                    /\ syncLog' = SyncLogged(syncLog, "task", id, "delete", <<>>, now)
                    /\ lastCall' = Call("deleteTask", <<id>>, RetTrue)
    /\ UNCHANGED <<variant, pageVars, projects, projectCurrentId, taskCurrentId, settings, childVars,
                   backup, uiVars>>

\* ------------------------------------------------ IndexedDB backup / restore
IdbBackupData(now) ==
    [projects |-> projects,
     tasks |-> tasks,
     subtasks |-> subtasks,
     comments |-> comments,
     timeLogs |-> timeLogs,
     settings |-> settings,
     date |-> ToISOString(now)]

IdbGetBackupData ==
    /\ variant = "idb"
    /\ \E now \in NewDateNow :
         /\ clock' = now
         /\ backup' = <<IdbBackupData(now)>>
         /\ lastCall' = Call("getBackupData", <<>>, RetRecord(IdbBackupData(now)))
    /\ UNCHANGED <<variant, pageVars, entityVars, childVars, logVars, uiVars>>

\* the rows of an object store after store.add(row) for each row of a cleared store
IdbAddAll(rows) ==
    LET keys == Ids(rows)
        Rank(r) == Cardinality({k \in keys : k <= r.id})
    IN [i \in 1..Len(rows) |-> CHOOSE r \in Range(rows) : Rank(r) = i]

\* store.add rejects with a ConstraintError when the key is already stored
UniqueKeys(rows) == Cardinality(Ids(rows)) = Len(rows)

IdbRestoredKeyGen(gen, rows) == IdbKeyGenAfter(gen, Max(Ids(rows) \cup {0}))

\* The TypeError of iterating a missing tasks array is thrown after the clears
\* and the project rows were requested; nothing aborts tx, so they commit.
\* A ConstraintError on a request aborts tx and every table is rolled back.
IdbRestoreFromBackup(b) ==
    /\ variant = "idb"
    /\ Has(b, "projects")
    /\ IF ~UniqueKeys(b.projects)
       THEN /\ lastCall' = Call("restoreFromBackup", <<b>>, RetThrow("ConstraintError"))
            /\ UNCHANGED <<entityVars, childVars>>
       ELSE IF ~Has(b, "tasks")
       THEN /\ projects' = IdbAddAll(b.projects)
            /\ projectCurrentId' = IdbRestoredKeyGen(projectCurrentId, b.projects)
            /\ tasks' = <<>>
            /\ subtasks' = <<>>
            /\ comments' = <<>>
            /\ timeLogs' = <<>>
            /\ lastCall' = Call("restoreFromBackup", <<b>>, RetThrow("TypeError"))
            /\ UNCHANGED <<taskCurrentId, settings, timeLogKeyGen, commentKeyGen>>
       ELSE LET bSubtasks == Get(b, "subtasks", <<>>)
                bComments == Get(b, "comments", <<>>)
                bTimeLogs == Get(b, "timeLogs", <<>>)
            IN IF ~(UniqueKeys(b.tasks) /\ UniqueKeys(bSubtasks)
                    /\ UniqueKeys(bComments) /\ UniqueKeys(bTimeLogs))
               THEN /\ lastCall' = Call("restoreFromBackup", <<b>>,
                                        RetThrow("ConstraintError"))
                    /\ UNCHANGED <<entityVars, childVars>>
               ELSE /\ projects' = IdbAddAll(b.projects)
                    /\ projectCurrentId' = IdbRestoredKeyGen(projectCurrentId, b.projects)
                    /\ tasks' = IdbAddAll(b.tasks)
                    /\ taskCurrentId' = IdbRestoredKeyGen(taskCurrentId, b.tasks)
                    /\ subtasks' = IdbAddAll(bSubtasks)
                    /\ comments' = IdbAddAll(bComments)
                    /\ commentKeyGen' = IdbRestoredKeyGen(commentKeyGen, bComments)
                    /\ timeLogs' = IdbAddAll(bTimeLogs)
                    /\ timeLogKeyGen' = IdbRestoredKeyGen(timeLogKeyGen, bTimeLogs)
                    /\ settings' = IF Get(b, "settings", <<>>) # <<>>
                                   THEN <<Merge(b.settings[1], [id |-> 1])>>
                                   ELSE settings
                    /\ lastCall' = Call("restoreFromBackup", <<b>>, RetTrue)
    /\ UNCHANGED <<variant, pageVars, clock, logVars, backup, uiVars>>

IdbRestoreInputs == {backup[i] : i \in 1..Len(backup)} \cup {MalformedBackup}

\* ------------------------------------------------------------ time tracking
\* a start that first closes the task's open logs
IdbStartTimeTrackingBad(taskId) ==
    /\ variant = "idb"
    /\ timeLogKeyGen <= MaxTimeLogs
    /\ LogRoom
    /\ \E now \in NewDateNow :
         LET id == timeLogKeyGen
             result == [taskId |-> taskId, startTime |-> now, endTime |-> Null,
                        duration |-> 0, description |-> "", id |-> id]
             closed == [i \in 1..Len(timeLogs) |->
                          IF timeLogs[i].taskId = taskId /\ timeLogs[i].endTime = Null
                          THEN Merge(timeLogs[i], [endTime |-> now])
                          ELSE timeLogs[i]]
         IN /\ clock' = now
            /\ timeLogs' = IdbPut(closed, result)
            /\ timeLogKeyGen' = id + 1
            /\ lastCall' = Call("startTimeTracking", <<taskId>>, RetRecord(result))
    /\ UNCHANGED <<variant, pageVars, entityVars, subtasks, comments, commentKeyGen, logVars,
                   backup, uiVars>>

IdbStartTimeTracking(taskId) ==
    /\ variant = "idb"
    /\ timeLogKeyGen <= MaxTimeLogs
    /\ LogRoom
    /\ \E now \in NewDateNow :
         LET id == timeLogKeyGen
             newTimeLog == [taskId |-> taskId, startTime |-> now, endTime |-> Null,
                            duration |-> 0, description |-> ""]
             result == Merge(newTimeLog, [id |-> id])
             task == IdbGet(tasks, taskId)
         IN /\ clock' = now
            /\ timeLogs' = IdbPut(timeLogs, result)
            /\ timeLogKeyGen' = id + 1
            /\ activityLog' =
                 IF task # <<>>
                 THEN ActivityLogged(activityLog,
                        [taskId |-> taskId, projectId |-> Get(task[1], "projectId", Null),
                         action |-> "time-start",
                         details |-> <<"Started time tracking for ", task[1].title>>], now)
                 ELSE activityLog
            /\ lastCall' = Call("startTimeTracking", <<taskId>>, RetRecord(result))
    /\ UNCHANGED <<variant, pageVars, entityVars, subtasks, comments, commentKeyGen, syncLog,
                   backup, uiVars>>

\* Math.round(x / 1000) for an integer x: halves are rounded up
RoundSecondsBad(ms) == ms \div 1000

RoundSeconds(ms) == (ms + 500) \div 1000

\* formatDuration(seconds)
FormatDuration(seconds) ==
    <<ToString(seconds \div 3600), "h ", ToString((seconds % 3600) \div 60), "m ",
      ToString(seconds % 60), "s">>

IdbStopTimeTracking(timeLogId) ==
    /\ variant = "idb"
    /\ IF IdbGet(timeLogs, timeLogId) = <<>>
       THEN /\ lastCall' = Call("stopTimeTracking", <<timeLogId>>, RetNull)
            /\ UNCHANGED <<clock, timeLogs, logVars>>
       ELSE /\ LogRoom
            /\ \E now \in NewDateNow :
                 LET timeLog == IdbGet(timeLogs, timeLogId)[1]
                     duration == RoundSeconds(now - timeLog.startTime)
                     updatedTimeLog == Merge(timeLog, [endTime |-> now,
                                                       duration |-> duration])
                     task == IdbGet(tasks, timeLog.taskId)
                 IN /\ clock' = now
                    /\ timeLogs' = IdbPut(timeLogs, updatedTimeLog)
                    /\ activityLog' =
                         IF task # <<>>
                         THEN ActivityLogged(activityLog,
                                [taskId |-> timeLog.taskId,
                                 projectId |-> Get(task[1], "projectId", Null),
                                 action |-> "time-stop",
                                 details |-> <<"Stopped time tracking for ", task[1].title,
                                               FormatDuration(duration)>>], now)
                         ELSE activityLog
                    /\ syncLog' = SyncLogged(syncLog, "timeLog", timeLogId, "update",
                                             <<updatedTimeLog>>, now)
                    /\ lastCall' = Call("stopTimeTracking", <<timeLogId>>,
                                        RetRecord(updatedTimeLog))
    /\ UNCHANGED <<variant, pageVars, entityVars, subtasks, comments, timeLogKeyGen, commentKeyGen,
                   backup, uiVars>>

\* --------------------------------------------------- IndexedDB statistics
RECURSIVE SumDuration(_)
SumDuration(logs) ==
    IF logs = <<>> THEN 0 ELSE logs[1].duration + SumDuration(Tail(logs))

TrackedLogsBad(logs) == SelectSeq(logs, LAMBDA log : log.duration > 1)

\* timeLogs.filter(log => log.duration > 0)
TrackedLogs(logs) == SelectSeq(logs, LAMBDA log : log.duration > 0)

IdbGetStatistics ==
    [totalProjects |-> Len(projects),
     completedTasks |->
         Len(SelectSeq(tasks, LAMBDA t : Get(t, "status", "undefined") = "completed")),
     inProgressTasks |->
         Len(SelectSeq(tasks, LAMBDA t : Get(t, "status", "undefined") = "in-progress")),
     notStartedTasks |->
         Len(SelectSeq(tasks, LAMBDA t : Get(t, "status", "undefined") = "not-started")),
     totalTrackedSeconds |-> SumDuration(TrackedLogs(timeLogs)),
     subtaskStats |-> [total |-> Len(subtasks),
                       completed |-> Len(SelectSeq(subtasks, LAMBDA st : st.isCompleted))]]

\* ----------------------------------------------------------------- subtasks
\* Array.prototype.sort((a, b) => a.order - b.order): stable, so rows of equal
\* order keep their relative position
SortByOrder(rows) ==
    LET Before(i, j) == \/ rows[i].order < rows[j].order
                        \/ rows[i].order = rows[j].order /\ i < j
        Rank(i) == 1 + Cardinality({j \in 1..Len(rows) : Before(j, i)})
    IN [k \in 1..Len(rows) |-> rows[CHOOSE i \in 1..Len(rows) : Rank(i) = k]]

\* getSubtasksByTask(taskId)
GetSubtasksByTask(taskId) ==
    SortByOrder(SelectSeq(subtasks, LAMBDA st : st.taskId = taskId))

\* db.add rejects with a ConstraintError when count + 1 is a stored id
IdbCreateSubtask(subtask) ==
    /\ variant = "idb"
    /\ Len(subtasks) < MaxSubtasks
    /\ LogRoom
    /\ LET nextId == Len(subtasks) + 1
           newSubtask == Merge(Merge([id |-> nextId], subtask), [isCompleted |-> FALSE])
           task == IdbGet(tasks, subtask.taskId)
       IN IF IdbGet(subtasks, nextId) # <<>>
          THEN /\ lastCall' = Call("createSubtask", <<subtask>>,
                                   RetThrow("ConstraintError"))
               /\ UNCHANGED <<clock, subtasks, logVars, listState>>
          ELSE \E now \in NewDateNow :
                 /\ clock' = now
                 /\ subtasks' = IdbPut(subtasks, newSubtask)
                 /\ activityLog' =
                      IF task # <<>>
                      THEN ActivityLogged(activityLog,
                             [taskId |-> subtask.taskId,
                              projectId |-> Get(task[1], "projectId", Null),
                              action |-> "create",
                              details |-> <<"Added subtask to ", task[1].title,
                                            subtask.title>>], now)
                      ELSE activityLog
                 /\ syncLog' = SyncLogged(syncLog, "subtask", nextId, "create",
                                          <<newSubtask>>, now)
                 /\ lastCall' = Call("createSubtask", <<subtask>>, RetRecord(newSubtask))
                 \* SubtaskForm.onSuccess: the open list refetches
                 /\ listState' = SortByOrder(SelectSeq(subtasks',
                                      LAMBDA st : st.taskId = subtask.taskId))
    /\ UNCHANGED <<variant, pageVars, entityVars, comments, timeLogs, timeLogKeyGen, commentKeyGen,
                   backup>>

\* The position in the requested list of the first subtask that is stored; 0 if none
FirstStored(order) ==
    IF \E i \in 1..Len(order) : IdbGet(subtasks, order[i].id) # <<>>
    THEN CHOOSE i \in 1..Len(order) :
           /\ IdbGet(subtasks, order[i].id) # <<>>
           /\ \A j \in 1..(i - 1) : IdbGet(subtasks, order[j].id) = <<>>
    ELSE 0

\* The position at which the loop of updateSubtasksOrder stops writing: tx has
\* no request pending while addSyncLogEntry is awaited, so it commits after the
\* first put and the next tx.store.get throws
ReorderedEnd(order, first) == first

\* the subtasks store after the puts of positions 1..last of the requested list
RECURSIVE OrdersWritten(_, _, _)
OrdersWritten(rows, order, last) ==
    IF last = 0 THEN rows
    ELSE LET done == OrdersWritten(rows, order, last - 1)
             current == IdbGet(done, order[last].id)
         IN IF current = <<>> THEN done
            ELSE IdbPut(done, Merge(current[1], [order |-> order[last].order]))

RECURSIVE OrdersSynced(_, _, _, _, _)
OrdersSynced(sl, rows, order, last, now) ==
    IF last = 0 THEN sl
    ELSE LET done == OrdersSynced(sl, rows, order, last - 1, now)
             current == IdbGet(rows, order[last].id)
         IN IF current = <<>> THEN done
            ELSE SyncLogged(done, "subtask", order[last].id, "update",
                            <<Merge(current[1], [order |-> order[last].order])>>, now)

\* updateSubtasksOrder(order): the new subtasks store, sync log, activity log
\* and the result
UpdateSubtasksOrder(order, now) ==
    LET first == FirstStored(order)
        last == IF first = 0 THEN 0 ELSE ReorderedEnd(order, first)
        returns == first = 0 \/ last = Len(order)
    IN [subtasks |-> OrdersWritten(subtasks, order, last),
        syncLog |-> OrdersSynced(syncLog, subtasks, order, last, now),
        activityLog |-> IF returns
                        THEN ActivityLogged(activityLog,
                               [action |-> "reorder",
                                details |-> <<"Reordered subtasks", ToString(Len(order))>>], now)
                        ELSE activityLog,
        ret |-> IF returns THEN RetTrue ELSE RetThrow("InvalidStateError")]

\* items.splice(source, 1) then items.splice(destination, 0, item); 1-based
Moved(items, source, destination) ==
    LET rest == Splice(items, source)
    IN [i \in 1..Len(items) |->
          IF i < destination THEN rest[i]
          ELSE IF i = destination THEN items[source]
          ELSE rest[i - 1]]

\* SubtaskList.onDragEnd with a destination inside the list
OnDragEnd(source, destination) ==
    /\ variant = "idb"
    /\ source \in 1..Len(listState)
    /\ destination \in 1..Len(listState)
    /\ LogRoom
    /\ \E now \in NewDateNow :
         LET items == Moved(listState, source, destination)
             updatedItems == [i \in 1..Len(items) |-> Merge(items[i], [order |-> i - 1])]
             request == [i \in 1..Len(items) |->
                           [id |-> updatedItems[i].id, order |-> updatedItems[i].order]]
             result == UpdateSubtasksOrder(request, now)
         IN /\ clock' = now
            /\ subtasks' = result.subtasks
            /\ syncLog' = result.syncLog
            /\ activityLog' = result.activityLog
            /\ lastCall' = Call("updateSubtasksOrder", <<request>>, result.ret)
            \* the catch refetches the list
            /\ listState' = IF result.ret = RetTrue THEN updatedItems
                            ELSE SortByOrder(SelectSeq(subtasks',
                                     LAMBDA st : st.taskId = updatedItems[1].taskId))
    /\ UNCHANGED <<variant, pageVars, entityVars, comments, timeLogs, timeLogKeyGen, commentKeyGen,
                   backup>>

\* SubtaskList.handleDelete: deleteSubtask(subtaskId), then the row leaves the list
IdbDeleteSubtask(subtaskId) ==
    /\ variant = "idb"
    /\ IF IdbGet(subtasks, subtaskId) = <<>>
       THEN /\ lastCall' = Call("deleteSubtask", <<subtaskId>>, RetFalse)
            /\ UNCHANGED <<clock, subtasks, logVars>>
       ELSE /\ LogRoom
            /\ \E now \in NewDateNow :
                 LET subtask == IdbGet(subtasks, subtaskId)[1]
                     task == IdbGet(tasks, subtask.taskId)
                 IN /\ clock' = now
                    /\ subtasks' = IdbDelete(subtasks, subtaskId)
                    /\ syncLog' = SyncLogged(syncLog, "subtask", subtaskId, "delete",
                                             <<subtask>>, now)
                    /\ activityLog' =
                         IF task # <<>>
                         THEN ActivityLogged(activityLog,
                                [taskId |-> subtask.taskId,
                                 projectId |-> Get(task[1], "projectId", Null),
                                 action |-> "delete",
                                 details |-> <<"Deleted subtask ", subtask.title>>], now)
                         ELSE activityLog
                    /\ lastCall' = Call("deleteSubtask", <<subtaskId>>, RetTrue)
    /\ listState' = SelectSeq(listState, LAMBDA st : st.id # subtaskId)
    /\ UNCHANGED <<variant, pageVars, entityVars, comments, timeLogs, timeLogKeyGen, commentKeyGen,
                   backup>>

\* SubtaskList.handleToggleComplete: updateSubtask(subtaskId, { isCompleted }),
\* then the row of the list is patched; the catch leaves the list alone
IdbUpdateSubtask(subtaskId, updates) ==
    /\ variant = "idb"
    /\ IF IdbGet(subtasks, subtaskId) = <<>>
       THEN /\ lastCall' = Call("updateSubtask", <<subtaskId>>, RetThrow("Error"))
            /\ UNCHANGED <<clock, subtasks, logVars, listState>>
       ELSE /\ LogRoom
            /\ \E now \in NewDateNow :
                 LET subtask == IdbGet(subtasks, subtaskId)[1]
                     updatedSubtask == Merge(subtask, updates)
                     task == IdbGet(tasks, subtask.taskId)
                     action == IF Has(updates, "isCompleted")
                               THEN IF updates.isCompleted THEN "complete" ELSE "reopen"
                               ELSE "update"
                     details == IF Has(updates, "isCompleted")
                                THEN IF updates.isCompleted
                                     THEN <<"Completed subtask ", subtask.title>>
                                     ELSE <<"Reopened subtask ", subtask.title>>
                                ELSE <<"Updated subtask ", subtask.title>>
                 IN /\ clock' = now
                    /\ subtasks' = IdbPut(subtasks, updatedSubtask)
                    /\ syncLog' = SyncLogged(syncLog, "subtask", subtaskId, "update",
                                             <<updatedSubtask>>, now)
                    /\ activityLog' =
                         IF task # <<>>
                         THEN ActivityLogged(activityLog,
                                [taskId |-> subtask.taskId,
                                 projectId |-> Get(task[1], "projectId", Null),
                                 action |-> action, details |-> details], now)
                         ELSE activityLog
                    /\ lastCall' = Call("updateSubtask", <<subtaskId>>,
                                        RetRecord(updatedSubtask))
                    /\ listState' = [i \in 1..Len(listState) |->
                                        IF listState[i].id = subtaskId
                                        THEN Merge(listState[i], updates)
                                        ELSE listState[i]]
    /\ UNCHANGED <<variant, pageVars, entityVars, comments, timeLogs, timeLogKeyGen, commentKeyGen,
                   backup>>

\* SubtaskList mounts: fetchSubtasks sets the component state
FetchSubtasks(taskId) ==
    /\ variant = "idb"
    /\ listState' = SortByOrder(GetSubtasksByTask(taskId))
    /\ lastCall' = Call("getSubtasksByTask", <<taskId>>, RetUndefined)
    /\ UNCHANGED <<variant, pageVars, clock, entityVars, childVars, logVars, backup>>

\* ----------------------------------------------------------------- comments
IdbAddComment(comment) ==
    /\ variant = "idb"
    /\ commentKeyGen <= MaxComments
    /\ LogRoom
    /\ \E now \in NewDateNow :
         LET id == commentKeyGen
             newComment == Merge(comment, [createdAt |-> now])
             result == Merge(newComment, [id |-> id])
             task == IdbGet(tasks, comment.taskId)
         IN /\ clock' = now
            /\ comments' = IdbPut(comments, result)
            /\ commentKeyGen' = id + 1
            /\ activityLog' =
                 IF task # <<>>
                 THEN ActivityLogged(activityLog,
                        [taskId |-> comment.taskId,
                         projectId |-> Get(task[1], "projectId", Null),
                         action |-> "comment",
                         details |-> <<"Added comment to ", task[1].title>>,
                         userId |-> comment.createdBy], now)
                 ELSE activityLog
            /\ syncLog' = SyncLogged(syncLog, "comment", id, "create", <<result>>, now)
            /\ lastCall' = Call("addComment", <<comment>>, RetRecord(result))
    /\ UNCHANGED <<variant, pageVars, entityVars, subtasks, timeLogs, timeLogKeyGen, backup, uiVars>>

\* ------------------------------------------------------------- offline sync
\* the rows are kept where they are, read and filtered
GetUnSyncedChangesBad(allChanges) == SelectSeq(allChanges, LAMBDA change : change.synced)

\* getUnSyncedChanges(): allChanges.filter(change => !change.synced)
GetUnSyncedChanges(allChanges) == SelectSeq(allChanges, LAMBDA change : ~change.synced)

\* the flag is flipped instead of set
IdbMarkAsSyncedBad(id) ==
    /\ variant = "idb"
    /\ LET syncEntry == IdbGet(syncLog, id)
       IN syncLog' = IF syncEntry # <<>>
                     THEN IdbPut(syncLog, Merge(syncEntry[1],
                                                [synced |-> ~syncEntry[1].synced]))
                     ELSE syncLog
    /\ lastCall' = Call("markAsSynced", <<id>>, RetUndefined)
    /\ UNCHANGED <<variant, pageVars, clock, entityVars, childVars, activityLog, backup, uiVars>>

IdbMarkAsSynced(id) ==
    /\ variant = "idb"
    /\ LET syncEntry == IdbGet(syncLog, id)
       IN syncLog' = IF syncEntry # <<>>
                     THEN IdbPut(syncLog, Merge(syncEntry[1], [synced |-> TRUE]))
                     ELSE syncLog
    /\ lastCall' = Call("markAsSynced", <<id>>, RetUndefined)
    /\ UNCHANGED <<variant, pageVars, clock, entityVars, childVars, activityLog, backup, uiVars>>

\* ------------------------------------------------------------- activity log
\* Array.prototype.sort((a, b) => b.timestamp - a.timestamp): stable
SortNewestFirst(logs) ==
    LET Before(i, j) == \/ logs[i].timestamp > logs[j].timestamp
                        \/ logs[i].timestamp = logs[j].timestamp /\ i < j
        Rank(i) == 1 + Cardinality({j \in 1..Len(logs) : Before(j, i)})
    IN [k \in 1..Len(logs) |-> logs[CHOOSE i \in 1..Len(logs) : Rank(i) = k]]

\* a number of the options that is given and truthy
Given(options, f) == Has(options, f) /\ options[f] # 0

\* getActivityLog(options)
GetActivityLog(options) ==
    LET logs == IF Given(options, "projectId")
                THEN SelectSeq(activityLog, LAMBDA l : l.projectId = options.projectId)
                ELSE IF Given(options, "taskId")
                THEN SelectSeq(activityLog, LAMBDA l : l.taskId = options.taskId)
                ELSE activityLog
        sorted == SortNewestFirst(logs)
    IN IF Given(options, "limit") /\ Len(sorted) > options.limit
       THEN SubSeq(sorted, 1, options.limit)
       ELSE sorted

\* ------------------------------------------- store calls of concurrent pages
\* Every await of a store call is a point where the call of another page on the
\* same database can run: the calls below are taken one await at a time.
Writers == {"tabA", "tabB"}

Idle == [pc |-> "idle", op |-> "", arg |-> <<>>, existing |-> <<>>, updated |-> <<>>,
         ret |-> RetUndefined]

CreateOps == {"createTask", "createProject"}
TaskOps == {"updateTask", "completeTask", "deleteTask"}

InFlight == Cardinality({w \in Writers : writers[w].pc # "idle"})

\* room in the logs for the entries of the calls in flight and of one more
WriterRoom ==
    /\ Len(activityLog) + InFlight < MaxLog
    /\ Len(syncLog) + InFlight < MaxLog

\* room in the key generators for the calls in flight and one more
KeyRoom(op) ==
    LET creating(o) == Cardinality({w \in Writers : writers[w].pc = "got"
                                                     /\ writers[w].op = o})
    IN /\ op = "createTask" => taskCurrentId + creating(op) <= MaxTaskId
       /\ op = "createProject" => projectCurrentId + creating(op) <= MaxProjectId

\* the call up to its first write: db.get(...) and the early return
WriterCall(w, op, arg) ==
    /\ variant = "idb"
    /\ writers[w].pc = "idle"
    /\ WriterRoom
    /\ KeyRoom(op)
    /\ LET existing == IF op \in TaskOps THEN IdbGet(tasks, arg[1])
                       ELSE IF op = "updateProject" THEN IdbGet(projects, arg[1])
                       ELSE <<>>
           absent == IF op = "deleteTask" THEN RetFalse ELSE RetUndefined
       IN IF op \notin CreateOps /\ existing = <<>>
          THEN /\ writers' = [writers EXCEPT ![w] =
                                [Idle EXCEPT !.op = op, !.arg = arg, !.ret = absent]]
               /\ lastCall' = Call(op, arg, absent)
          ELSE /\ writers' = [writers EXCEPT ![w] =
                                [Idle EXCEPT !.pc = "got", !.op = op, !.arg = arg,
                                             !.existing = existing]]
               /\ lastCall' = Call("await", <<w>>, RetUndefined)
    /\ UNCHANGED <<variant, clock, entityVars, childVars, logVars, backup, uiVars,
                   pomodoro>>

\* createTask: typedTask, taskWithMetadata and the key of db.add
IdbNewTask(task, id, now) ==
    LET typedTask == Merge(task, [status |-> OrDefault(task, "status", "not-started"),
                                  priority |-> OrDefault(task, "priority", "medium"),
                                  category |-> OrDefault(task, "category", "other")])
        taskWithMetadata == Merge(typedTask, [createdAt |-> now, completedAt |-> Null])
    IN Merge(taskWithMetadata, [id |-> id])

\* the record the call writes, <<>> for a delete; a version check would merge
\* into the record stored now
WriterRecordBad(c, now) ==
    IF c.op = "createTask" THEN <<IdbNewTask(c.arg[1], taskCurrentId, now)>>
    ELSE IF c.op = "updateTask"
    THEN <<Merge(Merge(c.existing[1], IdbGet(tasks, c.arg[1])[1]), c.arg[2])>>
    ELSE IF c.op = "completeTask" THEN <<IdbCompletedTask(c.existing[1], now)>>
    ELSE IF c.op = "createProject" THEN <<Merge(c.arg[1], [id |-> projectCurrentId])>>
    ELSE IF c.op = "updateProject" THEN <<Merge(c.existing[1], c.arg[2])>>
    ELSE <<>>

\* the record the call writes, <<>> for a delete
WriterRecord(c, now) ==
    IF c.op = "createTask" THEN <<IdbNewTask(c.arg[1], taskCurrentId, now)>>
    ELSE IF c.op = "updateTask" THEN <<Merge(c.existing[1], c.arg[2])>>
    ELSE IF c.op = "completeTask" THEN <<IdbCompletedTask(c.existing[1], now)>>
    ELSE IF c.op = "createProject" THEN <<Merge(c.arg[1], [id |-> projectCurrentId])>>
    ELSE IF c.op = "updateProject" THEN <<Merge(c.existing[1], c.arg[2])>>
    ELSE <<>>

\* the primary write: db.add / db.put / db.delete
WriterWrite(w) ==
    /\ writers[w].pc = "got"
    /\ \E now \in NewDateNow :
         LET c == writers[w]
             updated == WriterRecord(c, now)
         IN /\ clock' = now
            /\ tasks' = IF c.op \in {"createTask", "updateTask", "completeTask"}
                        THEN IdbPut(tasks, updated[1])
                        ELSE IF c.op = "deleteTask" THEN IdbDelete(tasks, c.arg[1])
                        ELSE tasks
            /\ taskCurrentId' = IF c.op = "createTask" THEN taskCurrentId + 1
                                ELSE taskCurrentId
            /\ projects' = IF c.op \in {"createProject", "updateProject"}
                           THEN IdbPut(projects, updated[1])
                           ELSE projects
            /\ projectCurrentId' = IF c.op = "createProject" THEN projectCurrentId + 1
                                   ELSE projectCurrentId
            /\ writers' = [writers EXCEPT ![w].pc = "written", ![w].updated = updated]
    /\ lastCall' = Call("await", <<w>>, RetUndefined)
    /\ UNCHANGED <<variant, settings, childVars, logVars, backup, uiVars, pomodoro>>

\* the argument of the call's addActivityLog
WriterActivityEntry(c) ==
    IF c.op = "createTask"
    THEN [taskId |-> c.updated[1].id, projectId |-> Get(c.arg[1], "projectId", Null),
          action |-> "create", details |-> <<"Created task: ", c.arg[1].title>>]
    ELSE IF c.op = "updateTask"
    THEN [taskId |-> c.arg[1], projectId |-> Get(c.updated[1], "projectId", Null),
          action |-> "update", details |-> <<"Updated task: ", c.existing[1].title>>]
    ELSE IF c.op = "completeTask"
    THEN [taskId |-> c.arg[1], projectId |-> Get(c.existing[1], "projectId", Null),
          action |-> "complete", details |-> <<"Completed task: ", c.existing[1].title>>]
    ELSE IF c.op = "deleteTask"
    THEN [projectId |-> Get(c.existing[1], "projectId", Null),
          action |-> "delete", details |-> <<"Deleted task: ", c.existing[1].title>>]
    ELSE IF c.op = "createProject"
    THEN [projectId |-> c.updated[1].id, action |-> "create",
          details |-> <<"Created project: ", c.arg[1].name>>]
    ELSE [projectId |-> c.arg[1], action |-> "update",
          details |-> <<"Updated project: ", c.existing[1].name>>]

\* await addActivityLog(...)
WriterActivity(w) ==
    /\ writers[w].pc = "written"
    /\ \E now \in NewDateNow :
         /\ clock' = now
         /\ activityLog' = ActivityLogged(activityLog, WriterActivityEntry(writers[w]), now)
    /\ writers' = [writers EXCEPT ![w].pc = "logged"]
    /\ lastCall' = Call("await", <<w>>, RetUndefined)
    /\ UNCHANGED <<variant, entityVars, childVars, syncLog, backup, uiVars, pomodoro>>

\* what the call resolves to
WriterResult(c) ==
    IF c.op = "deleteTask" THEN RetTrue ELSE RetRecord(c.updated[1])

\* await addSyncLogEntry(...) and the return
WriterSync(w) ==
    /\ writers[w].pc = "logged"
    /\ \E now \in NewDateNow :
         LET c == writers[w]
             entityType == IF c.op \in {"createProject", "updateProject"}
                           THEN "project" ELSE "task"
             entityId == IF c.op \in CreateOps THEN c.updated[1].id ELSE c.arg[1]
             action == IF c.op \in CreateOps THEN "create"
                       ELSE IF c.op = "deleteTask" THEN "delete" ELSE "update"
         IN /\ clock' = now
            /\ syncLog' = SyncLogged(syncLog, entityType, entityId, action, c.updated, now)
            /\ writers' = [writers EXCEPT ![w].pc = "idle", ![w].ret = WriterResult(c)]
            /\ lastCall' = Call(c.op, c.arg, WriterResult(c))
    /\ UNCHANGED <<variant, entityVars, childVars, activityLog, backup, uiVars, pomodoro>>

\* what the store holds after an append of the call was rejected; a rollback
\* would hand back the rows the call found
AfterRejectedAppendBad(rows, c) ==
    IF c.op \in CreateOps THEN IdbDelete(rows, c.updated[1].id)
    ELSE IdbPut(IdbDelete(rows, c.arg[1]), c.existing[1])

\* what the store holds after an append of the call was rejected: no catch, no
\* transaction around the primary write and the append
AfterRejectedAppend(rows, c) == rows

\* db.add('activityLog', ...) or db.add('syncLog', ...) rejects: the await
\* throws out of the call, which has no try / catch
WriterAppendRejected(w) ==
    /\ writers[w].pc \in {"written", "logged"}
    /\ LET c == writers[w]
       IN /\ tasks' = IF c.op \in TaskOps \cup {"createTask"}
                      THEN AfterRejectedAppend(tasks, c) ELSE tasks
          /\ projects' = IF c.op \in {"createProject", "updateProject"}
                         THEN AfterRejectedAppend(projects, c) ELSE projects
          /\ writers' = [writers EXCEPT ![w].pc = "idle",
                                        ![w].ret = RetThrow("QuotaExceededError")]
          /\ lastCall' = Call(c.op, c.arg, RetThrow("QuotaExceededError"))
    /\ UNCHANGED <<variant, clock, projectCurrentId, taskCurrentId, settings, childVars,
                   logVars, backup, uiVars, pomodoro>>

\* ------------------------------------------------------------ PomodoroTimer
PomodoroModes == {"work", "shortBreak", "longBreak"}

\* DEFAULT_SETTINGS; the durations only set how long a timer runs
DEFAULT_SETTINGS ==
    [autoStartBreaks |-> FALSE, autoStartPomodoros |-> FALSE, longBreakInterval |-> 4]

\* useState(DEFAULT_SETTINGS), useState('work'), useState(0), autoStart: false
PomodoroInit ==
    [settings |-> DEFAULT_SETTINGS, mode |-> "work", pomodoroCount |-> 0,
     isRunning |-> FALSE]

\* restart(expiryTimestamp, autoStart) of useTimer
Restart(p, autoStart) == [p EXCEPT !.isRunning = autoStart]

\* the break is chosen by the count before the pomodoro
NextModeBad(count, newCount, interval) ==
    IF count % interval = 0 THEN "longBreak" ELSE "shortBreak"

\* newCount % settings.longBreakInterval === 0 ? 'longBreak' : 'shortBreak'
NextMode(count, newCount, interval) ==
    IF newCount % interval = 0 THEN "longBreak" ELSE "shortBreak"

\* onExpire of the running timer
HandleTimerComplete ==
    /\ pomodoro.isRunning
    /\ pomodoro.mode = "work" => pomodoro.pomodoroCount < MaxPomodoros
    /\ IF pomodoro.mode = "work"
       THEN LET newCount == pomodoro.pomodoroCount + 1
                nextMode == NextMode(pomodoro.pomodoroCount, newCount,
                                     pomodoro.settings.longBreakInterval)
            IN pomodoro' = Restart([pomodoro EXCEPT !.pomodoroCount = newCount,
                                                     !.mode = nextMode],
                                   pomodoro.settings.autoStartBreaks)
       ELSE pomodoro' = Restart([pomodoro EXCEPT !.mode = "work"],
                                pomodoro.settings.autoStartPomodoros)
    /\ lastCall' = Call("handleTimerComplete", <<>>, RetUndefined)
    /\ UNCHANGED <<variant, clock, entityVars, childVars, logVars, backup, uiVars,
                   writers>>

\* the Tabs' onValueChange
HandleModeChange(newMode) ==
    /\ pomodoro' = Restart([pomodoro EXCEPT !.mode = newMode], FALSE)
    /\ lastCall' = Call("handleModeChange", <<newMode>>, RetUndefined)
    /\ UNCHANGED <<variant, clock, entityVars, childVars, logVars, backup, uiVars,
                   writers>>

\* the reset button: restart(getExpiryTimestamp(settings[mode]), false)
PomodoroReset ==
    /\ pomodoro' = Restart(pomodoro, FALSE)
    /\ lastCall' = Call("reset", <<>>, RetUndefined)
    /\ UNCHANGED <<variant, clock, entityVars, childVars, logVars, backup, uiVars,
                   writers>>

\* the start button, shown while the timer is not running
PomodoroStart ==
    /\ ~pomodoro.isRunning
    /\ pomodoro' = [pomodoro EXCEPT !.isRunning = TRUE]
    /\ lastCall' = Call("start", <<>>, RetUndefined)
    /\ UNCHANGED <<variant, clock, entityVars, childVars, logVars, backup, uiVars,
                   writers>>

\* the pause button, shown while the timer is running
PomodoroPause ==
    /\ pomodoro.isRunning
    /\ pomodoro' = [pomodoro EXCEPT !.isRunning = FALSE]
    /\ lastCall' = Call("pause", <<>>, RetUndefined)
    /\ UNCHANGED <<variant, clock, entityVars, childVars, logVars, backup, uiVars,
                   writers>>

\* the slider of the long break interval: min 2, max 8, step 1
LongBreakIntervals == 2..8

\* updateSettings('longBreakInterval', value[0])
UpdateSettings(key, value) ==
    /\ pomodoro' = [pomodoro EXCEPT !.settings = Merge(@, [longBreakInterval |-> value])]
    /\ key = "longBreakInterval"
    /\ lastCall' = Call("updateSettings", <<key, value>>, RetUndefined)
    /\ UNCHANGED <<variant, clock, entityVars, childVars, logVars, backup, uiVars,
                   writers>>

\* ============================================================ specifications
MemSettings ==
    [id |-> 1, theme |-> "light", language |-> "en", primaryColor |-> "#6200EA"]

Init ==
    /\ variant \in {"mem", "idb"}
    /\ clock = 0
    /\ projects = <<>>
    /\ tasks = <<>>
    /\ projectCurrentId = 1
    /\ taskCurrentId = 1
    /\ settings = IF variant = "mem" THEN <<MemSettings>> ELSE <<>>
    /\ subtasks = <<>>
    /\ comments = <<>>
    /\ timeLogs = <<>>
    /\ timeLogKeyGen = 1
    /\ commentKeyGen = 1
    /\ activityLog = <<>>
    /\ syncLog = <<>>
    /\ backup = <<>>
    /\ listState = <<>>
    /\ writers = [w \in Writers |-> Idle]
    /\ pomodoro = PomodoroInit
    /\ lastCall = Call("init", <<>>, RetUndefined)

\* Time passes between two calls; the clock never runs backwards
Tick(max) ==
    /\ \E t \in {clock + 400, clock + 1100} : t <= max /\ clock' = t
    /\ lastCall' = Call("tick", <<>>, RetUndefined)
    /\ UNCHANGED <<variant, pageVars, entityVars, childVars, logVars, backup, uiVars>>

\* ids handed to the calls: any id of the id space, stored or not
ProjectIdArgs == 1..MaxProjectId
TaskIdArgs == 1..MaxTaskId
TimeLogIdArgs == 1..MaxTimeLogs

CreateProject == \E project \in ProjectInputs :
                     MemCreateProject(project) \/ IdbCreateProject(project)
UpdateProject(ids) == \E id \in ids, project \in ProjectPartials :
                          MemUpdateProject(id, project) \/ IdbUpdateProject(id, project)
DeleteProject(ids) == \E id \in ids : MemDeleteProject(id) \/ IdbDeleteProject(id)
CreateTask(inputs) == \E task \in inputs : MemCreateTask(task) \/ IdbCreateTask(task)
UpdateTask(ids) == \E id \in ids, task \in TaskPartials :
                       MemUpdateTask(id, task) \/ IdbUpdateTask(id, task)
CompleteTask(ids) == \E id \in ids : MemCompleteTask(id) \/ IdbCompleteTask(id)
DeleteTask(ids) == \E id \in ids : MemDeleteTask(id) \/ IdbDeleteTask(id)
GetBackupData == MemGetBackupData \/ IdbGetBackupData
RestoreFromBackup ==
    \/ \E b \in MemRestoreInputs : MemRestoreFromBackup(b)
    \/ \E b \in IdbRestoreInputs : IdbRestoreFromBackup(b)
StartTimeTracking == \E taskId \in TaskIdArgs : IdbStartTimeTracking(taskId)
StopTimeTracking(ids) == \E timeLogId \in ids : IdbStopTimeTracking(timeLogId)

\* Spec: the entity operations of both stores, called with the ids of stored rows
Next ==
    \/ CreateProject
    \/ UpdateProject(Ids(projects))
    \/ DeleteProject(Ids(projects))
    \/ CreateTask(TaskInputs)
    \/ UpdateTask(Ids(tasks))
    \/ CompleteTask(Ids(tasks))
    \/ DeleteTask(Ids(tasks))
    \/ GetBackupData
    \/ RestoreFromBackup

Spec == Init /\ [][Next]_vars

\* SpecNotFound: the same operations called with any id of the id space, with
\* time tracking
NotFoundTaskInputs == {[title |-> "A", projectId |-> 1]}

NextNotFound ==
    \/ CreateProject
    \/ UpdateProject(ProjectIdArgs)
    \/ DeleteProject(ProjectIdArgs)
    \/ CreateTask(NotFoundTaskInputs)
    \/ UpdateTask(TaskIdArgs)
    \/ CompleteTask(TaskIdArgs)
    \/ DeleteTask(TaskIdArgs)
    \/ StartTimeTracking
    \/ StopTimeTracking(TimeLogIdArgs)

SpecNotFound == Init /\ [][NextNotFound]_vars

\* SpecTime: time tracking against a running clock
NextTime ==
    \/ CreateTask(NotFoundTaskInputs)
    \/ StartTimeTracking
    \/ StopTimeTracking(Ids(timeLogs))
    \/ Tick(MaxClock)

SpecTime == Init /\ [][NextTime]_vars

\* SpecSubtasks: one SubtaskList with its SubtaskForm
ListTaskId == 1

\* SubtaskForm.onSubmit: order is always 0
SubtaskInputs == {[taskId |-> ListTaskId, title |-> t, order |-> 0] : t \in {"S", "T"}}

CreateSubtask == \E subtask \in SubtaskInputs : IdbCreateSubtask(subtask)
DragEnd == \E source \in 1..MaxSubtasks, destination \in 1..MaxSubtasks :
               OnDragEnd(source, destination)

NextSubtasks ==
    \/ CreateTask(NotFoundTaskInputs)
    \/ CreateSubtask
    \/ DragEnd
    \/ Tick(MaxClock)

SpecSubtasks == Init /\ [][NextSubtasks]_vars

\* SpecFrame: partial updates of one, two or no changed fields
FrameProjectPartials ==
    {[phase |-> "production"], [name |-> "Demo2"],
     [name |-> "Demo2", phase |-> "production"], [phase |-> "pre-production"]}

FrameTaskPartials ==
    {[title |-> "B"], [status |-> "in-progress"],
     [title |-> "B", priority |-> "high"], [projectId |-> Null]}

FrameUpdateProject(ids) == \E id \in ids, project \in FrameProjectPartials :
                               MemUpdateProject(id, project) \/ IdbUpdateProject(id, project)
FrameUpdateTask(ids) == \E id \in ids, task \in FrameTaskPartials :
                            MemUpdateTask(id, task) \/ IdbUpdateTask(id, task)

NextFrame ==
    \/ CreateProject
    \/ CreateTask(TaskInputs)
    \/ FrameUpdateProject(Ids(projects))
    \/ FrameUpdateTask(Ids(tasks))
    \/ CompleteTask(Ids(tasks))

SpecFrame == Init /\ [][NextFrame]_vars

\* SpecWriters: two pages update and complete the stored tasks at the same time
WriterTaskPartials == {[title |-> "B"], [status |-> "in-progress"]}

WriterUpdateTask == \E w \in Writers, id \in Ids(tasks), task \in WriterTaskPartials :
                        WriterCall(w, "updateTask", <<id, task>>)
WriterCompleteTask == \E w \in Writers, id \in Ids(tasks) :
                          WriterCall(w, "completeTask", <<id>>)

NextWriters ==
    \/ CreateTask(NotFoundTaskInputs)
    \/ WriterUpdateTask
    \/ WriterCompleteTask
    \/ \E w \in Writers : WriterWrite(w)
    \/ \E w \in Writers : WriterActivity(w)
    \/ \E w \in Writers : WriterSync(w)

SpecWriters == Init /\ [][NextWriters]_vars

\* SpecStore: every mutating operation of the store, backup and restore
SubtaskIdArgs == 1..MaxSubtasks

StoreSubtaskInputs == {[taskId |-> ListTaskId, title |-> "S", order |-> 0]}

\* the checkbox of a subtask row
SubtaskUpdates == {[isCompleted |-> TRUE]}

CommentInputs == {[taskId |-> ListTaskId, content |-> "c", createdBy |-> "u1"]}

StoreCreateSubtask == \E subtask \in StoreSubtaskInputs : IdbCreateSubtask(subtask)
UpdateSubtask(ids) == \E subtaskId \in ids, updates \in SubtaskUpdates :
                          IdbUpdateSubtask(subtaskId, updates)
DeleteSubtask(ids) == \E subtaskId \in ids : IdbDeleteSubtask(subtaskId)
AddComment == \E comment \in CommentInputs : IdbAddComment(comment)
MarkAsSynced(ids) == \E id \in ids : IdbMarkAsSynced(id)

\* the behaviours of SpecStore are cut after MaxStoreLog logged mutations
StoreRoom == Len(activityLog) < MaxStoreLog /\ Len(syncLog) < MaxStoreLog

NextStore ==
    \/ StoreRoom /\ CreateProject
    \/ StoreRoom /\ UpdateProject(Ids(projects))
    \/ StoreRoom /\ DeleteProject(Ids(projects))
    \/ StoreRoom /\ CreateTask(NotFoundTaskInputs)
    \/ StoreRoom /\ UpdateTask(Ids(tasks))
    \/ StoreRoom /\ CompleteTask(Ids(tasks))
    \/ StoreRoom /\ DeleteTask(Ids(tasks))
    \/ StoreRoom /\ StoreCreateSubtask
    \/ StoreRoom /\ UpdateSubtask(Ids(subtasks))
    \/ StoreRoom /\ DeleteSubtask(Ids(subtasks))
    \/ StoreRoom /\ DragEnd
    \/ StoreRoom /\ AddComment
    \/ StoreRoom /\ StartTimeTracking
    \/ StoreRoom /\ StopTimeTracking(Ids(timeLogs))
    \/ StoreRoom /\ GetBackupData
    \/ StoreRoom /\ RestoreFromBackup

SpecStore == Init /\ [][NextStore]_vars

\* SpecReorder: a SubtaskList over subtasks that came with an imported backup
\* file, in which the subtasks of a task are numbered 0, 1, 2
ImportedSubtasks ==
    [i \in 1..MaxSubtasks |-> [id |-> i, taskId |-> ListTaskId, title |-> "S",
                               order |-> i - 1, isCompleted |-> FALSE]]

ImportedBackups ==
    {[projects |-> <<>>,
      tasks |-> <<IdbNewTask([title |-> "A", projectId |-> Null], ListTaskId, 0)>>,
      subtasks |-> SubSeq(ImportedSubtasks, 1, n)] : n \in 1..MaxSubtasks}

ImportBackup == \E b \in ImportedBackups : IdbRestoreFromBackup(b)

NextReorder ==
    \/ StoreRoom /\ ImportBackup
    \/ StoreRoom /\ CreateSubtask
    \/ StoreRoom /\ DeleteSubtask(SubtaskIdArgs)
    \/ StoreRoom /\ FetchSubtasks(ListTaskId)
    \/ StoreRoom /\ DragEnd

SpecReorder == Init /\ [][NextReorder]_vars

\* SpecPomodoro: one PomodoroTimer and its controls
NextPomodoro ==
    \/ PomodoroStart
    \/ PomodoroPause
    \/ HandleTimerComplete
    \/ \E newMode \in PomodoroModes : HandleModeChange(newMode)
    \/ PomodoroReset
    \/ \E value \in LongBreakIntervals : UpdateSettings("longBreakInterval", value)

SpecPomodoro == Init /\ [][NextPomodoro]_vars

\* SpecFailure: the calls of one page, any of whose log appends may be rejected
FailingWriters == {"tabA"}

FailCreateProject == \E w \in FailingWriters, project \in ProjectInputs :
                         WriterCall(w, "createProject", <<project>>)
FailUpdateProject == \E w \in FailingWriters, id \in Ids(projects),
                        project \in ProjectPartials :
                         WriterCall(w, "updateProject", <<id, project>>)
FailCreateTask == \E w \in FailingWriters, task \in NotFoundTaskInputs :
                      WriterCall(w, "createTask", <<task>>)
FailUpdateTask == \E w \in FailingWriters, id \in Ids(tasks), task \in WriterTaskPartials :
                      WriterCall(w, "updateTask", <<id, task>>)
FailCompleteTask == \E w \in FailingWriters, id \in Ids(tasks) :
                        WriterCall(w, "completeTask", <<id>>)
FailDeleteTask == \E w \in FailingWriters, id \in Ids(tasks) :
                      WriterCall(w, "deleteTask", <<id>>)

\* the behaviours of SpecFailure are cut after MaxFailLog logged mutations
FailRoom == Len(activityLog) < MaxFailLog /\ Len(syncLog) < MaxFailLog

NextFailure ==
    \/ FailRoom /\ FailCreateProject
    \/ FailRoom /\ FailUpdateProject
    \/ FailRoom /\ FailCreateTask
    \/ FailRoom /\ FailUpdateTask
    \/ FailRoom /\ FailCompleteTask
    \/ FailRoom /\ FailDeleteTask
    \/ \E w \in FailingWriters : WriterWrite(w)
    \/ \E w \in FailingWriters : WriterActivity(w)
    \/ \E w \in FailingWriters : WriterSync(w)
    \/ \E w \in FailingWriters : WriterAppendRejected(w)

SpecFailure == Init /\ [][NextFailure]_vars

\* SpecSync: subtasks and comments of a task that may not be stored, with the
\* sync queue drained entry by entry
NextSync ==
    \/ CreateTask(NotFoundTaskInputs)
    \/ StoreCreateSubtask
    \/ UpdateSubtask(SubtaskIdArgs)
    \/ DeleteSubtask(SubtaskIdArgs)
    \/ AddComment
    \/ MarkAsSynced(1..MaxLog)

SpecSync == Init /\ [][NextSync]_vars

\* ==================================================================== claims
\* task.completedAt holds a date
CompletedAtSet(t) == Has(t, "completedAt") /\ t.completedAt # Null

StatusOf(t) == Get(t, "status", "undefined")

\* the stored row with this id (the first one, should there be several)
Stored(rows, id) == rows[FindIndex(rows, id)]

\* C1: in every reachable state of either store every stored task has
\* completedAt set if and only if its status is "completed".
C1_CompletedAtIffCompleted ==
    \A i \in 1..Len(tasks) :
        CompletedAtSet(tasks[i]) <=> StatusOf(tasks[i]) = "completed"

\* C2: in every step other than a restore (which replaces the table by the rows
\* of the backup), a task's completedAt becomes set only by completeTask called
\* with that task's id, a task made by createTask starts without it, and right
\* after completeTask(id) returned a record the stored task has status
\* "completed" and a completedAt.
C2_CompletedAtOnlyByCompleteTask ==
    [][lastCall'.op # "restoreFromBackup" =>
        /\ \A i \in 1..Len(tasks') :
             CompletedAtSet(tasks'[i]) =>
                \/ \E j \in 1..Len(tasks) : /\ tasks[j].id = tasks'[i].id
                                            /\ CompletedAtSet(tasks[j])
                \/ /\ lastCall'.op = "completeTask"
                   /\ lastCall'.arg[1] = tasks'[i].id
        /\ (lastCall'.op = "completeTask" /\ lastCall'.ret.kind = "record") =>
             /\ lastCall'.arg[1] \in Ids(tasks')
             /\ StatusOf(Stored(tasks', lastCall'.arg[1])) = "completed"
             /\ CompletedAtSet(Stored(tasks', lastCall'.arg[1]))]_vars

\* C2 witness: completeTask has just completed a stored task that createTask
\* made without a completedAt, while another task is still not completed.
C2_Witness ==
    /\ lastCall.op = "completeTask"
    /\ lastCall.ret.kind = "record"
    /\ Len(tasks) = 2
    /\ \E i \in 1..2 : ~CompletedAtSet(tasks[i])

\* C3: deleteProject(id) on a stored project removes that project and every
\* task whose projectId is id, and leaves every other project and task stored
\* and unchanged.
C3_DeleteProjectCascades ==
    [][(lastCall'.op = "deleteProject" /\ lastCall'.arg[1] \in Ids(projects)) =>
        /\ Range(projects') = {p \in Range(projects) : p.id # lastCall'.arg[1]}
        /\ Range(tasks') =
             {t \in Range(tasks) : Get(t, "projectId", Null) # lastCall'.arg[1]}]_vars

\* C5: for any reachable store state, getBackupData() succeeds and handing its
\* result to restoreFromBackup() on an empty store gives the same set of project
\* rows and task rows (same ids, same field values, dates as instants).
C5_BackupRoundTrip ==
    IF variant = "mem"
    THEN /\ MemCanExport
         /\ Range(MemRestoredProjects(MemBackupData)) = Range(projects)
         /\ Range(MemRestoredTasks(MemBackupData)) = Range(tasks)
    ELSE /\ Range(IdbAddAll(IdbBackupData(clock).projects)) = Range(projects)
         /\ Range(IdbAddAll(IdbBackupData(clock).tasks)) = Range(tasks)

GetStatistics == IF variant = "mem" THEN MemGetStatistics ELSE IdbGetStatistics

\* C8: getStatistics().completedTasks is the number of stored tasks whose status
\* is "completed"; when completeTask has just returned a record and one task is
\* stored, getAllTasks() is that one task with status "completed" and a
\* completedAt, and completedTasks is 1.
C8_CompletedTasksCount ==
    /\ GetStatistics.completedTasks =
         Cardinality({i \in 1..Len(tasks) : StatusOf(tasks[i]) = "completed"})
    /\ (lastCall.op = "completeTask" /\ lastCall.ret.kind = "record" /\ Len(tasks) = 1) =>
         /\ StatusOf(tasks[1]) = "completed"
         /\ CompletedAtSet(tasks[1])
         /\ GetStatistics.completedTasks = 1

\* C8 witness: the scenario's end: one project, one task under it, just completed.
C8_Witness ==
    /\ lastCall.op = "completeTask"
    /\ lastCall.ret.kind = "record"
    /\ Len(projects) = 1
    /\ Len(tasks) = 1
    /\ tasks[1].projectId = projects[1].id
    /\ activityLog # <<>> \/ variant = "mem"

tables == <<projects, tasks, settings, subtasks, comments, timeLogs, activityLog, syncLog>>

\* C9: called with an id that is not stored, updateProject, updateTask and
\* completeTask return undefined, deleteProject and deleteTask return false,
\* stopTimeTracking returns null, and the call leaves every entity table, the
\* activity log and the sync log as they were.
C9_AbsentIdLeavesStore ==
    [][/\ (lastCall'.op \in {"updateProject", "deleteProject"}
           /\ lastCall'.arg[1] \notin Ids(projects)) =>
            /\ lastCall'.ret = IF lastCall'.op = "deleteProject"
                               THEN RetFalse ELSE RetUndefined
            /\ UNCHANGED tables
       /\ (lastCall'.op \in {"updateTask", "completeTask", "deleteTask"}
           /\ lastCall'.arg[1] \notin Ids(tasks)) =>
            /\ lastCall'.ret = IF lastCall'.op = "deleteTask"
                               THEN RetFalse ELSE RetUndefined
            /\ UNCHANGED tables
       /\ (lastCall'.op = "stopTimeTracking"
           /\ lastCall'.arg[1] \notin Ids(timeLogs)) =>
            /\ lastCall'.ret = RetNull
            /\ UNCHANGED tables]_vars

\* C9 witness: a call with an absent id has just returned its not-found value
\* in a store that holds rows and log entries.
C9_Witness ==
    /\ variant = "idb"
    /\ lastCall.op = "stopTimeTracking"
    /\ lastCall.ret = RetNull
    /\ tasks # <<>>
    /\ timeLogs # <<>>
    /\ syncLog # <<>>

Stopped(logs) == SelectSeq(logs, LAMBDA log : log.endTime # Null)

C4_ReorderIsDensePermutation ==
    lastCall.op = "updateSubtasksOrder" =>
        LET request == lastCall.arg[1]
            stored == GetSubtasksByTask(ListTaskId)
        IN /\ {stored[i].order : i \in 1..Len(stored)} = 0..(Len(stored) - 1)
           /\ [i \in 1..Len(stored) |-> stored[i].id]
                = [i \in 1..Len(request) |-> request[i].id]

\* C11: every createSubtask call returns the new subtask, and its id is the id
\* of no subtask stored at the call, after any createSubtask and deleteSubtask
\* calls.
C11_CreateSubtaskFreshId ==
    [][lastCall'.op = "createSubtask" =>
        /\ lastCall'.ret.kind = "record"
        /\ lastCall'.ret.val[1].id \notin Ids(subtasks)]_vars

\* the mutating operations of the persistent store
MutatingOps ==
    {"createProject", "updateProject", "deleteProject", "createTask", "updateTask",
     "completeTask", "deleteTask", "createSubtask", "updateSubtask", "deleteSubtask",
     "updateSubtasksOrder", "addComment", "startTimeTracking", "stopTimeTracking"}

\* the call returned a value that reports success
Succeeded(call) == call.ret.kind \in {"record", "true"}

\* the entityType under which the sync queue knows the entity of an operation
EntityTypeOf(op) ==
    CASE op \in {"createProject", "updateProject", "deleteProject"} -> "project"
      [] op \in {"createTask", "updateTask", "completeTask", "deleteTask"} -> "task"
      [] op \in {"createSubtask", "updateSubtask", "deleteSubtask",
                 "updateSubtasksOrder"} -> "subtask"
      [] op = "addComment" -> "comment"
      [] op \in {"startTimeTracking", "stopTimeTracking"} -> "timeLog"

\* the ids of the entities a successful call has mutated
MutatedIds(call) ==
    IF call.op = "updateSubtasksOrder"
    THEN {call.arg[1][i].id : i \in 1..Len(call.arg[1])}
    ELSE IF call.op \in {"createProject", "createTask", "createSubtask", "addComment",
                         "startTimeTracking"}
    THEN {call.ret.val[1].id}
    ELSE {call.arg[1]}

\* C12: every successful mutating operation of the persistent store appends at
\* least one activity-log entry and at least one unsynced sync-log entry that
\* names the mutated entity, whether or not the parent task is stored.
C12_EveryMutationIsLogged ==
    [][(variant = "idb" /\ lastCall'.op \in MutatingOps /\ Succeeded(lastCall')) =>
        /\ Len(activityLog') > Len(activityLog)
        /\ \E i \in (Len(syncLog) + 1)..Len(syncLog') :
             /\ ~syncLog'[i].synced
             /\ syncLog'[i].entityType = EntityTypeOf(lastCall'.op)
             /\ syncLog'[i].entityId \in MutatedIds(lastCall')]_vars

\* C13: after every step getUnSyncedChanges() returns only sync-log entries
\* whose synced flag is false (none extra), every such entry (none missing),
\* each once and in ascending key order; that is the order of appending,
\* because a step keeps the stored entries at their keys and positions and
\* gives each appended entry a key above every key before it.
C13_UnsyncedInAppendOrder ==
    [][LET unsynced == GetUnSyncedChanges(syncLog')
       IN /\ \A i \in 1..Len(unsynced) :
               unsynced[i] \in Range(syncLog') /\ ~unsynced[i].synced
          /\ \A e \in Range(syncLog') :
               ~e.synced => \E i \in 1..Len(unsynced) : unsynced[i] = e
          /\ \A i, j \in 1..Len(unsynced) : i < j => unsynced[i].id < unsynced[j].id
          /\ Len(syncLog') >= Len(syncLog)
          /\ \A i \in 1..Len(syncLog) : syncLog'[i].id = syncLog[i].id
          /\ \A i \in (Len(syncLog) + 1)..Len(syncLog') :
               \A j \in 1..(i - 1) : syncLog'[j].id < syncLog'[i].id]_vars

\* C13 witness: markAsSynced has just flagged an entry that lies between two
\* entries still waiting, so the result skips a row in the middle of the log.
C13_Witness ==
    /\ lastCall.op = "markAsSynced"
    /\ \E i, j, k \in 1..Len(syncLog) :
         /\ i < j /\ j < k
         /\ ~syncLog[i].synced /\ syncLog[j].synced /\ ~syncLog[k].synced
         /\ lastCall.arg[1] = syncLog[j].id
    /\ Len(GetUnSyncedChanges(syncLog)) >= 2

\* C14: the activity log is append-only: across every step of the store
\* (create, update, delete, cascade delete, reorder, time tracking, backup,
\* restore) the log does not get shorter and every entry it held keeps its
\* position, id, action, timestamp and details.
C14_ActivityLogAppendOnly ==
    [][/\ Len(activityLog') >= Len(activityLog)
       /\ \A i \in 1..Len(activityLog) :
            /\ activityLog'[i].id = activityLog[i].id
            /\ activityLog'[i].action = activityLog[i].action
            /\ activityLog'[i].timestamp = activityLog[i].timestamp
            /\ activityLog'[i].details = activityLog[i].details]_vars

\* C14 witness: a restore has just succeeded on a store whose activity log
\* holds the entries of a project that was created and then deleted.
C14_Witness ==
    /\ variant = "idb"
    /\ lastCall.op = "restoreFromBackup"
    /\ lastCall.ret = RetTrue
    /\ \E i, j \in 1..Len(activityLog) :
         /\ i < j
         /\ activityLog[i].action = "create"
         /\ activityLog[j].action = "delete"
         /\ activityLog[i].projectId \notin Ids(projects)

\* the option objects handed to getActivityLog: each filter given or left out
ActivityOptions ==
    {[x \in {} |-> 0]}
    \cup {[projectId |-> p] : p \in {1}}
    \cup {[taskId |-> t] : t \in {1, 2}}
    \cup {[limit |-> n] : n \in {1, 2}}
    \cup {[projectId |-> p, taskId |-> t] : p \in {1}, t \in {1, 2}}
    \cup {[projectId |-> p, limit |-> n] : p \in {1}, n \in {1, 2}}
    \cup {[taskId |-> t, limit |-> n] : t \in {1, 2}, n \in {1, 2}}
    \cup {[projectId |-> p, taskId |-> t, limit |-> n] : p \in {1}, t \in {1, 2}, n \in {1, 2}}

\* the entry passes every filter that the options give
MatchesOptions(l, options) ==
    /\ Has(options, "projectId") => l.projectId = options.projectId
    /\ Has(options, "taskId") => l.taskId = options.taskId

\* C15: for every options object, getActivityLog(options) returns entries of
\* the activity log that match every given filter, each once, newest first;
\* without a limit it returns all of them, with a limit the newest limit of
\* them (all, if there are fewer).
C15_ActivityQuery ==
    variant = "idb" =>
      \A options \in ActivityOptions :
        LET result == GetActivityLog(options)
            matching == {l \in Range(activityLog) : MatchesOptions(l, options)}
            returned == Range(result)
            n == Cardinality(matching)
        IN /\ returned \subseteq matching
           /\ Cardinality(returned) = Len(result)
           /\ \A i, j \in 1..Len(result) :
                i < j => result[i].timestamp >= result[j].timestamp
           /\ Len(result) = IF Has(options, "limit") /\ options.limit < n
                            THEN options.limit ELSE n
           /\ \A l \in matching \ returned :
                \A i \in 1..Len(result) : l.timestamp <= result[i].timestamp

\* some table of the store holds a row
StoreNotEmpty ==
    \/ projects # <<>> \/ tasks # <<>> \/ subtasks # <<>>
    \/ comments # <<>> \/ timeLogs # <<>> \/ activityLog # <<>>

\* C16: after restoreFromBackup(backup) returned true on a non-empty store,
\* every table of the backup format holds exactly the backup's rows for that
\* table, and no row at all when the backup has no array for the table
\* (MemStorage: projects and tasks, dates as instants; IndexedDB store:
\* projects, tasks, subtasks, comments, timeLogs, activityLog).
C16_RestoreReplacesEveryTable ==
    [][(lastCall'.op = "restoreFromBackup" /\ lastCall'.ret = RetTrue /\ StoreNotEmpty) =>
        LET b == lastCall'.arg[1]
        IN IF variant = "mem"
           THEN /\ Range(projects') = Range(MemRestoredProjects(b))
                /\ Range(tasks') = Range(MemRestoredTasks(b))
           ELSE /\ Range(projects') = Range(b.projects)
                /\ Range(tasks') = Range(b.tasks)
                /\ Range(subtasks') = Range(Get(b, "subtasks", <<>>))
                /\ Range(comments') = Range(Get(b, "comments", <<>>))
                /\ Range(timeLogs') = Range(Get(b, "timeLogs", <<>>))
                /\ Range(activityLog') = Range(Get(b, "activityLog", <<>>))]_vars

\* C17: when restoreFromBackup returns false or throws, the projects, the
\* tasks, the settings and the id counters of the store are what they were
\* before the call.
C17_FailedRestoreAppliesNothing ==
    [][(lastCall'.op = "restoreFromBackup" /\ lastCall'.ret # RetTrue) =>
        UNCHANGED <<projects, tasks, settings, projectCurrentId, taskCurrentId>>]_vars

\* the subtasks, comments and time logs that belong to one of the tasks
Dependants(taskIds, st, cm, tl) ==
    {r \in Range(st) \cup Range(cm) \cup Range(tl) : r.taskId \in taskIds}

\* C18: after deleteProject(id) returned true, no subtask, comment or time log
\* remains whose taskId is a task that was removed with the project.
C18_DeleteProjectReachesDependants ==
    [][(lastCall'.op = "deleteProject" /\ lastCall'.ret = RetTrue) =>
        Dependants(Ids(tasks) \ Ids(tasks'), subtasks', comments', timeLogs') = {}]_vars

\* C19: in the IndexedDB store, after deleteTask(id) returned true no subtask,
\* comment or time log with taskId = id remains.
C19_DeleteTaskCascades ==
    [][(variant = "idb" /\ lastCall'.op = "deleteTask" /\ lastCall'.ret = RetTrue) =>
        Dependants({lastCall'.arg[1]}, subtasks', comments', timeLogs') = {}]_vars

\* the rows of the object store that holds the entities of an entityType
RowsOf(entityType, p, t, st, cm, tl) ==
    CASE entityType = "project" -> p
      [] entityType = "task" -> t
      [] entityType = "subtask" -> st
      [] entityType = "comment" -> cm
      [] entityType = "timeLog" -> tl

\* C20: every sync-log entry appended by a step has synced = false; when its
\* action is create or update its data is the entity as it is stored after the
\* step, and when its action is delete its data is null, for every entity type.
C20_SyncEntryCarriesSnapshot ==
    [][\A i \in (Len(syncLog) + 1)..Len(syncLog') :
         LET entry == syncLog'[i]
             rows == RowsOf(entry.entityType, projects', tasks', subtasks', comments',
                            timeLogs')
         IN /\ ~entry.synced
            /\ entry.action \in {"create", "update"} =>
                 /\ entry.data # <<>>
                 /\ entry.data = IdbGet(rows, entry.entityId)
            /\ entry.action = "delete" => entry.data = <<>>]_vars

\* the order values of the subtasks of a task
OrdersOf(taskId) ==
    LET rows == SelectSeq(subtasks, LAMBDA st : st.taskId = taskId)
    IN [i \in 1..Len(rows) |-> rows[i].order]

\* C21: in every reachable state the order values of the subtasks of one task
\* are pairwise different (no duplicates) and fill an interval of integers
\* (no gaps).
C21_OrdersAreDense ==
    \A taskId \in TaskIdArgs :
        LET orders == OrdersOf(taskId)
        IN /\ Cardinality(Range(orders)) = Len(orders)
           /\ \A a, b \in Range(orders) :
                \A n \in a..b : n \in Range(orders)

\* C22: after deleteTask(id) returned true no activity-log entry has taskId =
\* id; after deleteProject(id) returned true no entry has projectId = id or
\* the taskId of a task removed with the project.
C22_BackReferencesNulled ==
    [][/\ (lastCall'.op = "deleteTask" /\ lastCall'.ret = RetTrue) =>
            \A i \in 1..Len(activityLog') :
                activityLog'[i].taskId # lastCall'.arg[1]
       /\ (lastCall'.op = "deleteProject" /\ lastCall'.ret = RetTrue) =>
            \A i \in 1..Len(activityLog') :
                /\ activityLog'[i].projectId # lastCall'.arg[1]
                /\ activityLog'[i].taskId \notin (Ids(tasks) \ Ids(tasks'))]_vars

\* rec is old with exactly the fields of partial set to partial's values
MergedOnly(old, partial, rec) ==
    /\ DOMAIN rec = (DOMAIN old) \cup (DOMAIN partial)
    /\ \A f \in DOMAIN partial : rec[f] = partial[f]
    /\ \A f \in (DOMAIN old) \ (DOMAIN partial) : rec[f] = old[f]

\* rows2 is rows with the row of this id replaced by a merge with partial
OnlyRowMerged(rows, rows2, id, partial) ==
    /\ Len(rows2) = Len(rows)
    /\ \A i \in 1..Len(rows) :
         /\ rows2[i].id = rows[i].id
         /\ IF rows[i].id = id THEN MergedOnly(rows[i], partial, rows2[i])
            ELSE rows2[i] = rows[i]

\* C23: updateTask(id, partial) and updateProject(id, partial) on a stored id
\* change only the record with that id, and of it only the fields present in
\* partial: it keeps its id and every other field, every other project and task
\* is unchanged, and the returned record is the stored one.
C23_UpdateChangesOnlyPartial ==
    [][/\ (lastCall'.op = "updateTask" /\ lastCall'.arg[1] \in Ids(tasks)) =>
            /\ OnlyRowMerged(tasks, tasks', lastCall'.arg[1], lastCall'.arg[2])
            /\ Stored(tasks', lastCall'.arg[1]).id = lastCall'.arg[1]
            /\ lastCall'.ret = RetRecord(Stored(tasks', lastCall'.arg[1]))
            /\ UNCHANGED projects
       /\ (lastCall'.op = "updateProject" /\ lastCall'.arg[1] \in Ids(projects)) =>
            /\ OnlyRowMerged(projects, projects', lastCall'.arg[1], lastCall'.arg[2])
            /\ Stored(projects', lastCall'.arg[1]).id = lastCall'.arg[1]
            /\ lastCall'.ret = RetRecord(Stored(projects', lastCall'.arg[1]))
            /\ UNCHANGED tasks]_vars

\* C23 witness: updateTask has just changed the title of one of two stored
\* tasks that were made with the same input, and the other one kept its title.
C23_Witness ==
    /\ lastCall.op = "updateTask"
    /\ lastCall.ret.kind = "record"
    /\ Has(lastCall.arg[2], "title")
    /\ Len(tasks) = 2
    /\ \E i, j \in 1..2 : tasks[i].title = "B" /\ tasks[j].title = "A"
    /\ projects # <<>>

\* C24: markAsSynced(id) sets synced = true on the sync-log entry with that id
\* and changes nothing else: no entry is added, removed or moved, every other
\* entry is unchanged, the flagged entry keeps its other fields, a call on an
\* entry that is already synced or on an absent id leaves the log as it was,
\* and no table other than the sync log changes; in no step of any operation
\* does a synced entry become unsynced.
C24_MarkAsSyncedFrame ==
    [][/\ lastCall'.op = "markAsSynced" =>
            LET id == lastCall'.arg[1]
            IN /\ Len(syncLog') = Len(syncLog)
               /\ \A i \in 1..Len(syncLog) :
                    IF syncLog[i].id = id
                    THEN syncLog'[i] = Merge(syncLog[i], [synced |-> TRUE])
                    ELSE syncLog'[i] = syncLog[i]
               /\ (id \notin Ids(syncLog) \/ Stored(syncLog, id).synced) =>
                    UNCHANGED syncLog
               /\ UNCHANGED <<projects, tasks, settings, subtasks, comments, timeLogs,
                              activityLog>>
       /\ \A i \in 1..Len(syncLog) :
            syncLog[i].synced => (i <= Len(syncLog') /\ syncLog'[i].synced)]_vars

\* C24 witness: markAsSynced has just been called on an entry that was synced
\* before the latest entry was appended, while other entries are still waiting,
\* or on an id that no entry has.
C24_Witness ==
    /\ lastCall.op = "markAsSynced"
    /\ Len(syncLog) >= 3
    /\ lastCall.arg[1] = syncLog[1].id
    /\ syncLog[1].synced
    /\ ~syncLog[2].synced
    /\ syncLog[3].synced

\* open time logs of a task: endTime === null
OpenLogs(logs, taskId) ==
    {i \in 1..Len(logs) : logs[i].taskId = taskId /\ logs[i].endTime = Null}

\* C25: startTimeTracking(taskId) always returns a record and adds exactly one
\* time log, under an id no stored log has, with that taskId, endTime = null
\* and duration = 0, whether or not the task is stored and whether or not the
\* task already has an open log; every log stored before is left as it was, so
\* open logs accumulate; stopTimeTracking(timeLogId) on a stored log closes that
\* log and changes no other log.
C25_StartAlwaysAddsOpenLog ==
    [][/\ lastCall'.op = "startTimeTracking" =>
            LET taskId == lastCall'.arg[1]
            IN /\ lastCall'.ret.kind = "record"
               /\ Len(timeLogs') = Len(timeLogs) + 1
               /\ \E i \in 1..Len(timeLogs') :
                    /\ timeLogs'[i] = lastCall'.ret.val[1]
                    /\ timeLogs'[i].id \notin Ids(timeLogs)
                    /\ timeLogs'[i].taskId = taskId
                    /\ timeLogs'[i].endTime = Null
                    /\ timeLogs'[i].duration = 0
               /\ \A i \in 1..Len(timeLogs) :
                    \E j \in 1..Len(timeLogs') : timeLogs'[j] = timeLogs[i]
               /\ Cardinality(OpenLogs(timeLogs', taskId))
                    = Cardinality(OpenLogs(timeLogs, taskId)) + 1
       /\ (lastCall'.op = "stopTimeTracking" /\ lastCall'.arg[1] \in Ids(timeLogs)) =>
            LET timeLogId == lastCall'.arg[1]
            IN /\ Ids(timeLogs') = Ids(timeLogs)
               /\ Stored(timeLogs', timeLogId).endTime # Null
               /\ \A id \in Ids(timeLogs) \ {timeLogId} :
                    Stored(timeLogs', id) = Stored(timeLogs, id)]_vars

\* C25 witness: a start for a task that is not stored and already had an open
\* log has added a second open log for it.
C25_Witness ==
    /\ lastCall.op = "startTimeTracking"
    /\ lastCall.arg[1] \notin Ids(tasks)
    /\ Cardinality(OpenLogs(timeLogs, lastCall.arg[1])) = 2

\* C25 witness of the independent stop: one of two open logs of a task has been
\* stopped and the other is still open.
C25_StoppedOne ==
    /\ lastCall.op = "stopTimeTracking"
    /\ lastCall.ret.kind = "record"
    /\ Len(timeLogs) = 2
    /\ timeLogs[1].taskId = timeLogs[2].taskId
    /\ \E i, j \in 1..2 : timeLogs[i].endTime = Null /\ timeLogs[j].endTime # Null

\* C26: deleteProject is all-or-nothing in the store: after a call on a stored
\* project, whether it returned or threw, either the project and every task of
\* it are gone, or the project and every task of it are still stored.
C26_DeleteProjectAllOrNothing ==
    [][(lastCall'.op = "deleteProject" /\ lastCall'.arg[1] \in Ids(projects)) =>
          LET id == lastCall'.arg[1]
              its == Ids(TasksByProject(id))
          IN \/ id \notin Ids(projects') /\ its \cap Ids(tasks') = {}
             \/ id \in Ids(projects') /\ its \subseteq Ids(tasks')]_vars

\* the fields a call sets itself
FieldsSet(c) ==
    IF c.op = "updateTask" THEN DOMAIN c.arg[2] ELSE {"status", "completedAt"}

\* C27: when the updateTask or completeTask call of one page writes a task that
\* another page has written since this call read it, the record stored is this
\* call's merge of what it read and nothing else: every field the other page
\* changed and this call does not set is back at the value this call read; and
\* every such call resolves to the record it wrote, never to an error.
C27_LastWriteWins ==
    [][\A w \in Writers :
         LET c == writers[w]
         IN /\ (c.pc = "got" /\ writers'[w].pc = "written") =>
                 LET id == c.arg[1]
                     read == c.existing[1]
                     now == Stored(tasks, id)
                     then == Stored(tasks', id)
                 IN /\ then = writers'[w].updated[1]
                    /\ \A f \in DOMAIN read \ FieldsSet(c) : then[f] = read[f]
                    /\ \A f \in DOMAIN now \ FieldsSet(c) :
                         (f \in DOMAIN read /\ now[f] # read[f]) => then[f] # now[f]
                    /\ c.op = "updateTask" =>
                         \A f \in DOMAIN c.arg[2] : then[f] = c.arg[2][f]
                    /\ c.op = "completeTask" => then.status = "completed"
            /\ (c.pc = "logged" /\ writers'[w].pc = "idle") =>
                 writers'[w].ret = RetRecord(c.updated[1])]_vars

\* C27 witness: both pages read task 1 with title "A", page A wrote title "B"
\* and page B wrote status "in-progress" after it; both calls resolved to their
\* record, and the stored task has page B's status and the title "A" again.
C27_Witness ==
    /\ \A w \in Writers : /\ writers[w].pc = "idle"
                          /\ writers[w].op = "updateTask"
                          /\ writers[w].ret.kind = "record"
                          /\ writers[w].arg[1] = 1
                          /\ writers[w].existing[1].title = "A"
                          /\ writers[w].existing[1].status = "not-started"
    /\ writers["tabA"].ret.val[1].title = "B"
    /\ writers["tabB"].ret.val[1].status = "in-progress"
    /\ Stored(tasks, 1) = writers["tabB"].ret.val[1]
    /\ Stored(tasks, 1).title = "A"

\* the sync-log entries of an entity
SyncEntriesOf(entityType, entityId) ==
    {i \in 1..Len(syncLog) : syncLog[i].entityType = entityType
                             /\ syncLog[i].entityId = entityId}

\* C28: when the activity-log append or the sync-log append of createTask,
\* updateTask, completeTask, deleteTask, createProject or updateProject is
\* rejected after the primary write, the call rejects, the rejected entry and
\* the ones after it are not written, and the primary write stays in the store
\* exactly as it was made: tasks and projects are not rolled back.
C28_FailedAppendKeepsPrimaryWrite ==
    [][\A w \in Writers :
         LET c == writers[w]
         IN (c.pc \in {"written", "logged"} /\ writers'[w].pc = "idle"
             /\ writers'[w].ret.kind \notin {"record", "true"}) =>
              /\ lastCall'.op = c.op
              /\ lastCall'.ret = RetThrow("QuotaExceededError")
              /\ UNCHANGED <<tasks, projects, activityLog, syncLog>>
              /\ c.op = "deleteTask" => c.arg[1] \notin Ids(tasks')
              /\ c.op \in {"createTask", "updateTask", "completeTask"} =>
                   Stored(tasks', c.updated[1].id) = c.updated[1]
              /\ c.op \in {"createProject", "updateProject"} =>
                   Stored(projects', c.updated[1].id) = c.updated[1]]_vars

\* C28 witness: createTask rejected on its activity-log append; the task is
\* stored and neither log has an entry of it.
C28_Witness ==
    /\ lastCall.op = "createTask"
    /\ lastCall.ret = RetThrow("QuotaExceededError")
    /\ tasks # <<>>
    /\ LET id == tasks[Len(tasks)].id
       IN /\ SyncEntriesOf("task", id) = {}
          /\ \A i \in 1..Len(activityLog) : activityLog[i].taskId # id

\* C28 witness of the half-written trail: updateTask rejected on its sync-log
\* append, after its activity entry was written.
C28_ActivityWithoutSync ==
    /\ lastCall.op = "updateTask"
    /\ lastCall.ret = RetThrow("QuotaExceededError")
    /\ Stored(tasks, lastCall.arg[1]).title = "B"
    /\ \E i \in 1..Len(activityLog) : activityLog[i].action = "update"
    /\ \A i \in 1..Len(syncLog) : syncLog[i].action # "update"

\* C29: updateSubtasksOrder applies the whole requested ordering or none of it:
\* after a call, returned or failed, that lists two or more stored subtasks,
\* either every listed subtask is stored with its requested order or the
\* subtasks store is as it was before the call.
C29_ReorderAllOrNothing ==
    [][(/\ lastCall'.op = "updateSubtasksOrder"
        /\ Len(lastCall'.arg[1]) >= 2
        /\ \A i \in 1..Len(lastCall'.arg[1]) : lastCall'.arg[1][i].id \in Ids(subtasks)) =>
          LET order == lastCall'.arg[1]
          IN \/ \A i \in 1..Len(order) :
                  Stored(subtasks', order[i].id).order = order[i].order
             \/ subtasks' = subtasks]_vars

\* C30: the expiry of a work timer adds exactly one to the completed count and
\* sets the mode to longBreak when the new count is a multiple of
\* longBreakInterval and to shortBreak otherwise; the expiry of a break timer
\* sets the mode to work and leaves the count; every other step (mode change,
\* reset, start, pause, settings) leaves the count; and after an expiry the timer
\* runs only if the auto-start setting of the timer that follows is on.
C30_PomodoroCycle ==
    [][LET p == pomodoro
           q == pomodoro'
       IN IF lastCall'.op = "handleTimerComplete"
          THEN IF p.mode = "work"
               THEN /\ q.pomodoroCount = p.pomodoroCount + 1
                    /\ q.mode = IF q.pomodoroCount % p.settings.longBreakInterval = 0
                                THEN "longBreak" ELSE "shortBreak"
                    /\ q.isRunning => p.settings.autoStartBreaks
               ELSE /\ q.pomodoroCount = p.pomodoroCount
                    /\ q.mode = "work"
                    /\ q.isRunning => p.settings.autoStartPomodoros
          ELSE /\ q.pomodoroCount = p.pomodoroCount
               /\ lastCall'.op = "handleModeChange" =>
                    q.mode = lastCall'.arg[1] /\ ~q.isRunning
               /\ lastCall'.op = "reset" => q.mode = p.mode /\ ~q.isRunning]_vars

\* C30 witness: the sixth work timer has expired with longBreakInterval = 3, and
\* the long break is waiting to be started.
C30_Witness ==
    /\ lastCall.op = "handleTimerComplete"
    /\ pomodoro.pomodoroCount = 6
    /\ pomodoro.settings.longBreakInterval = 3
    /\ pomodoro.mode = "longBreak"
    /\ ~pomodoro.isRunning

====
